---- MODULE Spec2Model ----
(***************************************************************************)
(* A model of the retrieval subsystem of rag-qa-system.                    *)
(*                                                                         *)
(* VectorStore (app/services/vector_store.py) keeps three structures in    *)
(* lockstep: the FAISS index (a sequence of L2-normalised vectors), the    *)
(* metadata list (one ChunkMetadata per vector) and document_chunks (a     *)
(* dict from document id to the list of positions its chunks occupy).      *)
(*                                                                         *)
(* Positions are the code's 0-based list offsets; TLA+ sequences are       *)
(* 1-based, so position p of a list is element p + 1 of the sequence.      *)
(* Floats are fixed-point integers: a normalised component is an integer   *)
(* in -Scale..Scale and a similarity score is an inner product of two      *)
(* such vectors, an integer in -Scale^2..Scale^2.                          *)
(***************************************************************************)
EXTENDS Integers, Sequences, FiniteSets, TLC

VARIABLES
    index,            \* VectorStore.index: the vectors held by the FAISS index
    metadata,         \* VectorStore.metadata
    document_chunks,  \* VectorStore.document_chunks
    pre,              \* the three structures as they were when the last call began
    call,             \* the last call: its name and its arguments
    ret,              \* how the last call ended: a returned value or a raised exception
    lookup,           \* the positions index.search handed to the last search, best first
    lock,             \* VectorStore._lock: the thread that holds it, or NoThread
    threads,          \* each thread's call in progress: its position, arguments and locals
    disk,             \* the two persisted artifacts: faiss.index and metadata.json
    documents,        \* DocumentStore._documents
    job,              \* the process_document run in progress
    response,         \* what the last request to the API was answered with
    chunker           \* a TextChunker and what is remembered of its calls

vars == <<index, metadata, document_chunks, pre, call, ret, lookup,
          lock, threads, disk, documents, job, response, chunker>>

-----------------------------------------------------------------------------
(* Bounds of the model *)

Dimension == 2     \* the index's configured dimension (768 in production)
Scale == 100       \* fixed-point resolution of a normalised component
MaxChunks == 4     \* add_embeddings is not called once the index would exceed this
MaxBatch == 2      \* longest batch handed to add_embeddings
MaxTopK == 2       \* largest top_k handed to search

-----------------------------------------------------------------------------
(* Python values *)

None == [some |-> FALSE, val |-> <<>>]
Some(x) == [some |-> TRUE, val |-> x]

\* How a call ends: it returns None, a boolean or a list, or it raises an
\* exception. One record shape serves all four, the fields a call does not
\* use being left at their defaults.
ReturnNone == [kind |-> "return", exception |-> "", flag |-> FALSE, results |-> <<>>]
ReturnBool(b) == [kind |-> "return", exception |-> "", flag |-> b, results |-> <<>>]
ReturnList(l) == [kind |-> "return", exception |-> "", flag |-> FALSE, results |-> l]
Raise(e) == [kind |-> "raise", exception |-> e, flag |-> FALSE, results |-> <<>>]

\* The empty dict.
EmptyDict == [d \in {} |-> <<>>]

\* Element at 0-based position p of a list.
At(list, p) == list[p + 1]

\* The 0-based positions of a list.
Positions(list) == 0 .. (Len(list) - 1)

Min(a, b) == IF a <= b THEN a ELSE b
Max(a, b) == IF a >= b THEN a ELSE b

\* Integer square root: the largest r with r * r <= x, found by bisection
\* between lo (lo * lo <= x) and hi (hi * hi > x).
RECURSIVE Bisect(_, _, _)
Bisect(x, lo, hi) ==
    IF hi - lo <= 1 THEN lo
    ELSE LET mid == (lo + hi) \div 2
         IN  IF mid * mid <= x THEN Bisect(x, mid, hi) ELSE Bisect(x, lo, mid)

ISqrt(x) == Bisect(x, 0, x + 1)

RECURSIVE SumTo(_, _)
SumTo(f, n) == IF n = 0 THEN 0 ELSE f[n] + SumTo(f, n - 1)

\* Inner product of two vectors of the same length.
Dot(u, v) == SumTo([i \in 1 .. Len(u) |-> u[i] * v[i]], Len(u))

\* Division truncating toward zero.
TruncDiv(a, b) == IF a < 0 THEN -((-a) \div b) ELSE a \div b

-----------------------------------------------------------------------------
(* The state of a VectorStore as one value *)

Store(ix, md, dc) == [index |-> ix, metadata |-> md, document_chunks |-> dc]

\* VectorStore._initialize_new: a new empty index, no metadata, an empty mapping.
_initialize_new == Store(<<>>, <<>>, EmptyDict)

\* ChunkMetadata.__init__
ChunkMetadata(document_id, filename, chunk_index, content, start_char, end_char) ==
    [document_id |-> document_id, filename |-> filename, chunk_index |-> chunk_index,
     content |-> content, start_char |-> start_char, end_char |-> end_char]

-----------------------------------------------------------------------------
(* FAISS primitives used by the store *)

\* faiss.normalize_L2 on one row: the row divided by its L2 norm; a row of
\* zeros is left as it is.
normalize_L2(v) ==
    LET norm == ISqrt(Dot(v, v) * Scale * Scale)
    IN  IF norm = 0 THEN v
        ELSE [i \in 1 .. Len(v) |-> TruncDiv(v[i] * Scale * Scale, norm)]

\* np.array(rows, dtype=np.float32) builds a matrix only when every row has
\* the same length.
IsMatrix(rows) == \A i, j \in 1 .. Len(rows) : Len(rows[i]) = Len(rows[j])

\* DimensionOk, but every row length is accepted.
DimensionOk_Unchecked(rows) == TRUE

\* The check of faiss's index.add(x) and index.search(x, k): the row length
\* must be the index's dimension.
DimensionOk(rows) == \A i \in 1 .. Len(rows) : Len(rows[i]) = Dimension

-----------------------------------------------------------------------------
(* VectorStore.add_embeddings *)

\* LengthMismatch, but nothing is checked.
LengthMismatch_Unchecked(embeddings, chunks_metadata) == FALSE

\* The length check that opens add_embeddings.
LengthMismatch(embeddings, chunks_metadata) == Len(embeddings) # Len(chunks_metadata)

\* AppendMapping, but the position recorded is i, not start_idx + i.
RECURSIVE AppendMapping_NoOffset(_, _, _, _)
AppendMapping_NoOffset(dc, chunks_metadata, start_idx, i) ==
    IF i >= Len(chunks_metadata) THEN dc
    ELSE LET id == At(chunks_metadata, i).document_id
             known == [d \in DOMAIN dc \cup {id} |-> IF d \in DOMAIN dc THEN dc[d] ELSE <<>>]
         IN  AppendMapping_NoOffset([known EXCEPT ![id] = Append(@, i)],
                                    chunks_metadata, start_idx, i + 1)

\* The loop over chunks_metadata from its i-th element on: each record's
\* position start_idx + i is appended to the list of its document, which is
\* created when the document is new.
RECURSIVE AppendMapping(_, _, _, _)
AppendMapping(dc, chunks_metadata, start_idx, i) ==
    IF i >= Len(chunks_metadata) THEN dc
    ELSE LET id == At(chunks_metadata, i).document_id
             known == [d \in DOMAIN dc \cup {id} |-> IF d \in DOMAIN dc THEN dc[d] ELSE <<>>]
         IN  AppendMapping([known EXCEPT ![id] = Append(@, start_idx + i)],
                           chunks_metadata, start_idx, i + 1)

\* AddLocked, but start_idx is read after the vectors were added, from the
\* index.
AddLocked_LateStart(S, embeddings, chunks_metadata) ==
    IF ~IsMatrix(embeddings) THEN [store |-> S, ret |-> Raise("ValueError")]
    ELSE LET vectors == [i \in 1 .. Len(embeddings) |-> normalize_L2(embeddings[i])]
             start_idx == Len(S.index \o vectors)
         IN  IF ~DimensionOk(vectors) THEN [store |-> S, ret |-> Raise("AssertionError")]
             ELSE [store |-> Store(S.index \o vectors,
                                   S.metadata \o chunks_metadata,
                                   AppendMapping(S.document_chunks, chunks_metadata, start_idx, 0)),
                   ret |-> ReturnNone]

\* The body run under the lock: the rows are made a float32 matrix and
\* normalised, start_idx is read, the vectors are added to the index (which
\* rejects rows of the wrong dimension), and only then are the records and
\* their positions appended.
AddLocked(S, embeddings, chunks_metadata) ==
    IF ~IsMatrix(embeddings) THEN [store |-> S, ret |-> Raise("ValueError")]
    ELSE LET vectors == [i \in 1 .. Len(embeddings) |-> normalize_L2(embeddings[i])]
             start_idx == Len(S.metadata)
         IN  IF ~DimensionOk(vectors) THEN [store |-> S, ret |-> Raise("AssertionError")]
             ELSE [store |-> Store(S.index \o vectors,
                                   S.metadata \o chunks_metadata,
                                   AppendMapping(S.document_chunks, chunks_metadata, start_idx, 0)),
                   ret |-> ReturnNone]

add_embeddings(S, embeddings, chunks_metadata) ==
    IF LengthMismatch(embeddings, chunks_metadata)
    THEN [store |-> S, ret |-> Raise("VectorStoreError")]
    ELSE IF embeddings = <<>> THEN [store |-> S, ret |-> ReturnNone]
    ELSE AddLocked(S, embeddings, chunks_metadata)

-----------------------------------------------------------------------------
(* VectorStore.delete_document *)

\* KeptPositions, but only the first owned position is removed.
KeptPositions_FirstOnly(md, remove_indices) ==
    SelectSeq([k \in 1 .. Len(md) |-> k - 1],
              LAMBDA i : i \notin {r \in remove_indices : \A q \in remove_indices : r <= q})

\* The first loop of delete_document: the positions not in remove_indices,
\* in increasing order.
KeptPositions(md, remove_indices) ==
    SelectSeq([k \in 1 .. Len(md) |-> k - 1], LAMBDA i : i \notin remove_indices)

\* reconstruct, but one position too low.
reconstruct_OffByOne(ix, i) == At(ix, IF i > 0 THEN i - 1 ELSE i)

\* index.reconstruct(i): the vector stored at position i.
reconstruct(ix, i) == At(ix, i)

\* RebuildIndex, but the surviving vectors are never added back.
RebuildIndex_Empty(embeddings_to_keep) == _initialize_new.index

\* The rebuilt index: a new empty index, to which the surviving vectors are
\* added (as they are: they are already normalised) when there are any.
RebuildIndex(embeddings_to_keep) ==
    IF embeddings_to_keep # <<>>
    THEN _initialize_new.index \o embeddings_to_keep
    ELSE _initialize_new.index

\* The loop that rebuilds document_chunks over the new metadata list.
RebuildMapping(md) == AppendMapping(EmptyDict, md, 0, 0)

\* del dc[id] when id is a key of dc.
Discard(dc, id) == [d \in DOMAIN dc \ {id} |-> dc[d]]

\* The body run under the lock. index.reconstruct raises on a position the
\* index does not hold, which is before anything is changed.
DeleteLocked(S, document_id) ==
    LET owned == S.document_chunks[document_id]
        remove_indices == {owned[k] : k \in 1 .. Len(owned)}
        kept == KeptPositions(S.metadata, remove_indices)
        new_metadata == [k \in 1 .. Len(kept) |-> At(S.metadata, kept[k])]
        embeddings_to_keep == [k \in 1 .. Len(kept) |-> reconstruct(S.index, kept[k])]
    IN  IF \E k \in 1 .. Len(kept) : kept[k] >= Len(S.index)
        THEN [store |-> S, ret |-> Raise("RuntimeError")]
        ELSE [store |-> Store(RebuildIndex(embeddings_to_keep), new_metadata,
                              Discard(RebuildMapping(new_metadata), document_id)),
              ret |-> ReturnBool(TRUE)]

\* delete_document, but an unknown document is reported as deleted.
delete_document_AlwaysTrue(S, document_id) ==
    IF document_id \notin DOMAIN S.document_chunks
    THEN [store |-> S, ret |-> ReturnBool(TRUE)]
    ELSE DeleteLocked(S, document_id)

delete_document(S, document_id) ==
    IF document_id \notin DOMAIN S.document_chunks
    THEN [store |-> S, ret |-> ReturnBool(FALSE)]
    ELSE DeleteLocked(S, document_id)

-----------------------------------------------------------------------------
(* The read-only accessors *)

get_document_count(S) == Cardinality(DOMAIN S.document_chunks)

get_chunk_count(S) == Len(S.metadata)

get_document_chunk_count(S, document_id) ==
    IF document_id \in DOMAIN S.document_chunks
    THEN Len(S.document_chunks[document_id])
    ELSE 0

-----------------------------------------------------------------------------
(* VectorStore.search *)

\* Python truthiness of the document_ids argument: None and the empty list
\* are both false.
Truthy(document_ids) == document_ids.some /\ document_ids.val # <<>>

\* x in list
In(x, list) == \E k \in 1 .. Len(list) : list[k] = x

\* The similarity of the query to the vector at position p.
Score(ix, query_vector, p) == Dot(At(ix, p), query_vector)

\* The orders in which a nearest-neighbour lookup may rank the positions of
\* the index: every order of non-increasing score (FAISS leaves the order of
\* equal scores open).
Rankings(ix, query_vector) ==
    IF Len(query_vector) # Dimension THEN {[k \in 1 .. Len(ix) |-> k - 1]}
    ELSE LET score == [p \in Positions(ix) |-> Score(ix, query_vector, p)]
             orders == {o \in Permutations(1 .. Len(ix)) :
                          \A a \in 1 .. Len(ix) - 1 : score[o[a] - 1] >= score[o[a + 1] - 1]}
         IN  {[k \in 1 .. Len(ix) |-> o[k] - 1] : o \in orders}

\* The best k positions of each ranking: what a lookup of k candidates reads
\* of the ranking.
Lookups(ix, query_vector, k) ==
    {SubSeq(ranking, 1, Min(k, Len(ix))) : ranking \in Rankings(ix, query_vector)}

\* The number of candidates search asks the index for.
search_k(top_k, ntotal, document_ids) ==
    IF Truthy(document_ids) THEN Min(top_k * 3, ntotal) ELSE Min(top_k, ntotal)

\* What index.search fills a slot with when the index holds fewer than k
\* vectors: position -1 and the lowest score.
NoNeighbour == [dist |-> -(2 * Scale * Scale), idx |-> -1]

\* index.search(query_vector, k) under the ranking the index produces: the k
\* best positions with their scores, padded when the index holds fewer. The
\* faiss wrapper rejects a query of the wrong dimension, and (when strict) a
\* k that is not positive.
index_search(ix, ranking, query_vector, k, strict) ==
    IF Len(query_vector) # Dimension \/ (strict /\ k <= 0)
    THEN [ok |-> FALSE, hits |-> <<>>]
    ELSE [ok |-> TRUE,
          hits |-> [c \in 1 .. k |->
                      IF c <= Len(ranking)
                      THEN [dist |-> Score(ix, query_vector, ranking[c]), idx |-> ranking[c]]
                      ELSE NoNeighbour]]

\* BelowThreshold, but no candidate is dropped.
BelowThreshold_Never(dist, similarity_threshold) == FALSE

\* The test that drops a candidate below the similarity threshold.
BelowThreshold(dist, similarity_threshold) == dist < similarity_threshold

\* The test that ends the loop once enough results are collected.
Enough(results, top_k) == Len(results) >= top_k

\* The loop over zip(distances[0], indices[0]) from the c-th candidate on.
RECURSIVE Collect(_, _, _, _, _, _, _)
Collect(md, hits, c, results, top_k, document_ids, similarity_threshold) ==
    IF c > Len(hits) THEN results
    ELSE LET dist == hits[c].dist
             idx == hits[c].idx
             next(r) == Collect(md, hits, c + 1, r, top_k, document_ids, similarity_threshold)
         IN  IF idx = -1 THEN next(results)
             ELSE IF Truthy(document_ids) /\ ~In(At(md, idx).document_id, document_ids.val)
                  THEN next(results)
             ELSE IF BelowThreshold(dist, similarity_threshold) THEN next(results)
             ELSE LET appended == Append(results, <<At(md, idx), dist>>)
                  IN  IF Enough(appended, top_k) THEN appended ELSE next(appended)

\* search: the value it returns or the exception it raises, and the
\* candidates the index handed it.
search(S, ranking, strict, query_embedding, top_k, document_ids, similarity_threshold) ==
    IF Len(S.index) = 0 THEN [ret |-> ReturnList(<<>>), hits |-> <<>>]
    ELSE LET query_vector == normalize_L2(query_embedding)
             k == search_k(top_k, Len(S.index), document_ids)
             found == index_search(S.index, ranking, query_vector, k, strict)
         IN  IF ~found.ok THEN [ret |-> Raise("AssertionError"), hits |-> <<>>]
             ELSE [ret |-> ReturnList(Collect(S.metadata, found.hits, 1, <<>>, top_k,
                                              document_ids, similarity_threshold)),
                   hits |-> found.hits]

-----------------------------------------------------------------------------
(* The arguments the calls are made with *)

\* Embeddings of the index's dimension, not of unit length: along an axis
\* and along the diagonal.
Axis(a, len) == [i \in 1 .. Dimension |-> IF i = a THEN len ELSE 0]
Diagonal(len) == [i \in 1 .. Dimension |-> len]

\* An embedding one component too long.
WrongDimension == [i \in 1 .. Dimension + 1 |-> 1]

\* The chunks of two documents: three of A and two of B. Chunks of A and B
\* share texts.
Metas == {ChunkMetadata("A", "a.txt", 0, "alpha", 0, 5),
          ChunkMetadata("A", "a.txt", 1, "beta", 3, 7),
          ChunkMetadata("A", "a.txt", 2, "gamma", 5, 10),
          ChunkMetadata("B", "b.txt", 0, "beta", 0, 4),
          ChunkMetadata("B", "b.txt", 1, "alpha", 2, 7)}

\* The embedding the embedding service gives a chunk: a function of its text.
EmbeddingOf(content) ==
    CASE content = "alpha" -> Axis(1, 3)
      [] content = "beta" -> Diagonal(1)
      [] OTHER -> Axis(Dimension, -2)

\* The ids delete_document is called with: the two documents and one that
\* is never added.
DocumentIds == {"A", "B", "C"}

Repeat(x, n) == [i \in 1 .. n |-> x]

\* Batches of n different records with the n embeddings of their texts, as
\* ingestion builds them.
WellFormed ==
    UNION {{<<[i \in 1 .. n |-> EmbeddingOf(m[i].content)], m>> :
              m \in {m \in [1 .. n -> Metas] : \A i, j \in 1 .. n : m[i] = m[j] => i = j}} :
           n \in 0 .. MaxBatch}

\* Batches whose numbers of embeddings and of records differ.
Mismatched ==
    {<<Repeat(Diagonal(1), a), Repeat(CHOOSE m \in Metas : m.document_id = "B", b)>> :
        a, b \in 0 .. MaxBatch} \ WellFormed

\* Batches of embeddings of the wrong dimension, all rows or only the last.
Misdimensioned ==
    UNION {{<<Repeat(WrongDimension, n), Repeat(CHOOSE m \in Metas : m.chunk_index = 1, n)>>,
            <<[i \in 1 .. n |-> IF i = n THEN WrongDimension ELSE Axis(1, 3)],
              Repeat(CHOOSE m \in Metas : m.chunk_index = 1, n)>>} :
           n \in 1 .. MaxBatch}

AddInputs == WellFormed \cup Mismatched \cup Misdimensioned

\* Queries: along the last axis, against the diagonal, and one of the wrong
\* dimension.
Queries == {Axis(Dimension, 2), Diagonal(-1), WrongDimension}

\* document_ids: absent, empty, a document and an unknown id.
Filters == {None, Some(<<>>), Some(<<"A", "C">>)}

\* similarity_threshold: the default of search (0.0) and the configured 0.3.
Thresholds == {0, (3 * Scale * Scale) \div 10}

-----------------------------------------------------------------------------
(* The rest of the program's state, as it is before anything runs *)

\* The threads that call the store, and the value of the lock when free.
Threads == {"T1", "T2"}
NoThread == "none"

\* A thread that is in no call: the arguments and the locals of the three
\* calls at their defaults.
Idle ==
    [op |-> "idle", pc |-> "done", calls |-> 0,
     embeddings |-> <<>>, chunks_metadata |-> <<>>, document_id |-> "",
     query_embedding |-> <<>>, top_k |-> 0, document_ids |-> None, similarity_threshold |-> 0,
     vectors |-> <<>>, start_idx |-> 0, i |-> 0,
     new_metadata |-> <<>>, embeddings_to_keep |-> <<>>,
     search_k |-> 0, hits |-> <<>>, results |-> <<>>, count |-> 0,
     ret |-> ReturnNone]

\* A file of the store directory: whether it exists, whether what it holds
\* can be read back (a file cut short cannot), and what it holds.
File(exists, readable, content) ==
    [exists |-> exists, readable |-> readable, content |-> content]

\* The store directory with neither faiss.index nor metadata.json.
NothingPersisted ==
    [index_file |-> File(FALSE, FALSE, <<>>),
     metadata_file |-> File(FALSE, FALSE, [chunks |-> <<>>, document_chunks |-> <<>>])]

\* No background job queued, no document id issued, no question waiting for
\* its embedding, no TextChunker built, no request answered.
NoJob == [queued |-> {}, issued |-> {}, asking |-> <<>>]
NoChunker ==
    [built |-> FALSE, chunk_size |-> 0, chunk_overlap |-> 0, calls |-> 0,
     text |-> "", chunks |-> <<>>, between |-> FALSE]
NoResponse ==
    [status_code |-> 0, detail |-> "", document_id |-> "", status |-> "",
     answer |-> "", sources |-> <<>>, chunks_retrieved |-> 0,
     avg_similarity_score |-> 0, max_similarity_score |-> 0, min_similarity_score |-> 0]

\* What the calls on one store leave alone.
rest == <<lock, threads, disk, documents, job, response, chunker>>

AtRest ==
    /\ lock = NoThread
    /\ threads = [t \in Threads |-> Idle]
    /\ disk = NothingPersisted
    /\ documents = EmptyDict
    /\ job = NoJob
    /\ response = NoResponse
    /\ chunker = NoChunker

-----------------------------------------------------------------------------
(* The state machine: calls on one VectorStore, one at a time *)

Current == Store(index, metadata, document_chunks)

Install(S) ==
    /\ index' = S.index
    /\ metadata' = S.metadata
    /\ document_chunks' = S.document_chunks

\* A call that left the store as it found it (a search, a rejected or empty
\* add, a delete of an unknown document) is recorded and the run is not
\* continued from it: the store is the one the call began with, so every
\* continuation is already a continuation of the state the call was made in.
\* The reachable states are the same with and without this guard.
Settled == call.op \in {"__init__", "save"} \/ Current # pre

\* VectorStore.__init__ with nothing persisted: _initialize_new.
Init ==
    /\ index = _initialize_new.index
    /\ metadata = _initialize_new.metadata
    /\ document_chunks = _initialize_new.document_chunks
    /\ pre = _initialize_new
    /\ call = [op |-> "__init__", saved |-> FALSE]
    /\ ret = ReturnNone
    /\ lookup = <<>>
    /\ AtRest

\* Ingestion gives every upload a new document id, so a chunk that is in the
\* index is not added a second time.
AddEmbeddings ==
    /\ Settled
    /\ \E args \in AddInputs :
        /\ \A i \in 1 .. Len(args[2]) : ~In(args[2][i], metadata)
        /\ Len(metadata) + Len(args[1]) <= MaxChunks
        /\ Len(metadata) + Len(args[2]) <= MaxChunks
        /\ LET r == add_embeddings(Current, args[1], args[2])
           IN  /\ Install(r.store)
               /\ ret' = r.ret
        /\ pre' = Current
        /\ call' = [op |-> "add_embeddings", embeddings |-> args[1], chunks_metadata |-> args[2]]
        /\ lookup' = <<>>
    /\ UNCHANGED rest

DeleteDocument ==
    /\ Settled
    /\ \E document_id \in DocumentIds :
        /\ LET r == delete_document(Current, document_id)
           IN  /\ Install(r.store)
               /\ ret' = r.ret
        /\ pre' = Current
        /\ call' = [op |-> "delete_document", document_id |-> document_id]
        /\ lookup' = <<>>
    /\ UNCHANGED rest

Search ==
    /\ Settled
    /\ \E query_embedding \in Queries, top_k \in 0 .. MaxTopK, document_ids \in Filters :
        \E ranking \in Lookups(index, normalize_L2(query_embedding),
                               search_k(top_k, Len(index), document_ids)) :
          \E similarity_threshold \in Thresholds, strict \in IF top_k = 0 THEN BOOLEAN ELSE {TRUE} :
            /\ LET r == search(Current, ranking, strict, query_embedding, top_k,
                               document_ids, similarity_threshold)
               IN  /\ ret' = r.ret
                   /\ lookup' = r.hits
            /\ pre' = Current
            /\ call' = [op |-> "search", query_embedding |-> query_embedding, top_k |-> top_k,
                        document_ids |-> document_ids,
                        similarity_threshold |-> similarity_threshold]
            /\ UNCHANGED <<index, metadata, document_chunks>>
    /\ UNCHANGED rest

Next == AddEmbeddings \/ DeleteDocument \/ Search

Spec == Init /\ [][Next]_vars

-----------------------------------------------------------------------------
(* Properties of the store: invariants I1 and I2 *)

\* How the last call ended.
Returned == ret.kind = "return"
Raised == ret.kind = "raise"
Deleted == call.op = "delete_document" /\ Returned /\ ret.flag
NotDeleted == call.op = "delete_document" /\ Returned /\ ~ret.flag

\* The positions of a metadata list whose record belongs to document id.
OwnedBy(md, id) == {p \in Positions(md) : At(md, p).document_id = id}

\* How many times record r occurs in a metadata list.
Occurrences(md, r) == Cardinality({p \in Positions(md) : At(md, p) = r})

\* C1 (invariant I1): after every completed add_embeddings and
\* delete_document call, starting from the empty index, the index holds as
\* many vectors as there are metadata records.
C1_VectorsMatchRecords == Len(index) = Len(metadata)

\* A delete_document that removed something and left records behind.
C1_Witness == Deleted /\ Len(metadata) > 0 /\ Len(metadata) < Len(pre.metadata)

\* C2 (invariant I2): every position listed under a document id is a valid
\* position whose record has that document id, and every record's position
\* is listed under the record's own document id.
C2_MappingMatchesRecords ==
    /\ \A id \in DOMAIN document_chunks :
         \A k \in 1 .. Len(document_chunks[id]) :
            /\ document_chunks[id][k] \in Positions(metadata)
            /\ At(metadata, document_chunks[id][k]).document_id = id
    /\ \A p \in Positions(metadata) :
         /\ At(metadata, p).document_id \in DOMAIN document_chunks
         /\ In(p, document_chunks[At(metadata, p).document_id])

\* A delete_document that removed position 0 and shifted two survivors of
\* one document down, after which the mapping lists them at their new
\* positions.
C2_Witness ==
    /\ Deleted
    /\ 0 \in OwnedBy(pre.metadata, call.document_id)
    /\ \E id \in DOMAIN document_chunks : document_chunks[id] = <<0, 1>>

-----------------------------------------------------------------------------
(* Properties of delete_document *)

\* C3: after delete_document(X) returns true, get_document_chunk_count(X) is
\* 0, no record of X remains in the index, every record of every other
\* document is still there, unchanged and as many times as before; and a
\* search never returns a record of a document that owns no chunks.
C3_DeleteRemovesOnlyTheDocument ==
    /\ Deleted =>
         /\ get_document_chunk_count(Current, call.document_id) = 0
         /\ OwnedBy(metadata, call.document_id) = {}
         /\ \A p \in Positions(pre.metadata) :
               At(pre.metadata, p).document_id # call.document_id =>
                  Occurrences(metadata, At(pre.metadata, p))
                     = Occurrences(pre.metadata, At(pre.metadata, p))
    /\ (call.op = "search" /\ Returned) =>
         \A k \in 1 .. Len(ret.results) :
            get_document_chunk_count(Current, ret.results[k][1].document_id) > 0

\* A delete_document that removed the two chunks of one document and kept
\* the chunk of the other.
C3_Witness ==
    /\ Deleted
    /\ Cardinality(OwnedBy(pre.metadata, call.document_id)) = 2
    /\ Len(metadata) = 1

\* C4: delete_document keeps the survivors in their order on contiguous
\* positions, each with the vector it had: the record at position p with
\* vector v is afterwards at p minus the number of removed positions below
\* p, and the vector stored there is v.
C4_DeleteKeepsOrderAndPairing ==
    Deleted =>
        LET removed == OwnedBy(pre.metadata, call.document_id)
            shift(p) == Cardinality({q \in removed : q < p})
        IN  /\ Len(metadata) = Len(pre.metadata) - Cardinality(removed)
            /\ Len(index) = Len(metadata)
            /\ \A p \in Positions(pre.metadata) \ removed :
                  /\ At(metadata, p - shift(p)) = At(pre.metadata, p)
                  /\ At(index, p - shift(p)) = At(pre.index, p)

\* A delete_document that removed position 0 and moved two survivors with
\* different vectors down by one.
C4_Witness ==
    /\ Deleted
    /\ OwnedBy(pre.metadata, call.document_id) = {0}
    /\ Len(metadata) = 2
    /\ At(index, 0) # At(index, 1)

\* C5: delete_document(id) for an id that owns no chunk returns false and
\* leaves the vectors, the records and the mapping as they were; and once
\* delete_document(A) has returned true, delete_document(A) returns false.
C5_DeleteUnknownIsNoOp ==
    /\ (call.op = "delete_document" /\ OwnedBy(pre.metadata, call.document_id) = {}) =>
          /\ NotDeleted
          /\ Current = pre
    /\ Deleted => delete_document(Current, call.document_id) = [store |-> Current, ret |-> ReturnBool(FALSE)]

\* A delete_document that returned false for a document whose chunks are
\* not in a non-empty index.
C5_Witness == NotDeleted /\ call.document_id = "A" /\ Len(metadata) > 0

-----------------------------------------------------------------------------
(* Properties of add_embeddings *)

Added == call.op = "add_embeddings" /\ Returned /\ call.embeddings # <<>>

\* C6: add_embeddings with a number of vectors different from the number of
\* records fails with a VectorStoreError and leaves the index, the records
\* and the mapping unchanged; with empty input it returns and changes
\* nothing.
C6_AddRejectsLengthMismatch ==
    /\ (call.op = "add_embeddings" /\ Len(call.embeddings) # Len(call.chunks_metadata)) =>
          /\ Raised
          /\ ret.exception = "VectorStoreError"
          /\ Current = pre
    /\ (call.op = "add_embeddings" /\ call.embeddings = <<>> /\ call.chunks_metadata = <<>>) =>
          /\ Returned
          /\ Current = pre

\* An add_embeddings with no vectors and some records, rejected on a
\* non-empty index.
C6_Witness ==
    /\ call.op = "add_embeddings"
    /\ call.embeddings = <<>>
    /\ call.chunks_metadata # <<>>
    /\ Raised
    /\ Len(metadata) > 0

\* C7: add_embeddings with as many vectors as records, one of them not of
\* the index's dimension, is rejected, and the vectors, the records and the
\* mapping are then exactly as before the call.
C7_AddRejectsWrongDimension ==
    (/\ call.op = "add_embeddings"
     /\ Len(call.embeddings) = Len(call.chunks_metadata)
     /\ \E i \in 1 .. Len(call.embeddings) : Len(call.embeddings[i]) # Dimension) =>
        /\ Raised
        /\ Current = pre

\* An add_embeddings of two vectors of the wrong dimension with two records,
\* rejected by the index on a non-empty store.
C7_Witness ==
    /\ call.op = "add_embeddings"
    /\ Len(call.chunks_metadata) = 2
    /\ \A i \in 1 .. Len(call.embeddings) : Len(call.embeddings[i]) = Dimension + 1
    /\ Raised
    /\ ret.exception = "AssertionError"
    /\ Len(metadata) > 0

\* The positions k .. k + n - 1 at which a batch put the records of
\* document id, in increasing order.
RECURSIVE BatchPositions(_, _, _, _)
BatchPositions(chunks_metadata, id, k, i) ==
    IF i >= Len(chunks_metadata) THEN <<>>
    ELSE (IF At(chunks_metadata, i).document_id = id THEN <<k + i>> ELSE <<>>)
         \o BatchPositions(chunks_metadata, id, k, i + 1)

\* C8: a successful add_embeddings of n vectors and records on an index of
\* k records puts them at positions k .. k + n - 1 in input order (each
\* vector normalised), appends exactly those positions to document_chunks
\* under each record's document id, and leaves positions 0 .. k - 1 and
\* their mapping entries as they were.
C8_AddAppends ==
    Added =>
        LET k == Len(pre.metadata)
            n == Len(call.embeddings)
            ids == {At(call.chunks_metadata, i).document_id : i \in 0 .. n - 1}
            before(id) == IF id \in DOMAIN pre.document_chunks
                          THEN pre.document_chunks[id] ELSE <<>>
        IN  /\ Len(metadata) = k + n
            /\ Len(index) = k + n
            /\ \A i \in 0 .. n - 1 :
                  /\ At(metadata, k + i) = At(call.chunks_metadata, i)
                  /\ At(index, k + i) = normalize_L2(At(call.embeddings, i))
            /\ \A p \in 0 .. k - 1 :
                  /\ At(metadata, p) = At(pre.metadata, p)
                  /\ At(index, p) = At(pre.index, p)
            /\ DOMAIN document_chunks = DOMAIN pre.document_chunks \cup ids
            /\ \A id \in DOMAIN document_chunks :
                  document_chunks[id] = before(id) \o BatchPositions(call.chunks_metadata, id, k, 0)

\* An add_embeddings of a batch of two documents, one known and one new, to
\* an index of one record.
C8_Witness ==
    /\ Added
    /\ Len(pre.metadata) = 1
    /\ Len(call.chunks_metadata) = 2
    /\ call.chunks_metadata[1].document_id # call.chunks_metadata[2].document_id
    /\ DOMAIN document_chunks # DOMAIN pre.document_chunks

-----------------------------------------------------------------------------
(* Properties of search *)

Searched == call.op = "search" /\ Returned

\* C9: search returns at most top_k results, in non-increasing score order,
\* each score at least similarity_threshold; on an index of zero vectors it
\* returns the empty sequence, whatever the query.
C9_SearchResultsBounded ==
    /\ Searched =>
          /\ Len(ret.results) <= call.top_k
          /\ \A a, b \in 1 .. Len(ret.results) : a < b => ret.results[a][2] >= ret.results[b][2]
          /\ \A a \in 1 .. Len(ret.results) : ret.results[a][2] >= call.similarity_threshold
    /\ (call.op = "search" /\ Len(pre.index) = 0) =>
          /\ Returned
          /\ ret.results = <<>>

\* A search of an index of three vectors that returned two results of
\* different scores and dropped one candidate.
C9_Witness ==
    /\ Searched
    /\ Len(index) = 3
    /\ Len(lookup) = 3
    /\ Len(ret.results) = 2
    /\ ret.results[1][2] > ret.results[2][2]

\* The candidates the index handed to the last search are exactly the k
\* highest-scoring vectors: k distinct positions with their scores, and no
\* position left out scores higher than one taken.
PoolIsBest(k) ==
    LET query_vector == normalize_L2(call.query_embedding)
        taken == {lookup[c].idx : c \in 1 .. Len(lookup)}
    IN  /\ Len(lookup) = k
        /\ Cardinality(taken) = k
        /\ taken \subseteq Positions(index)
        /\ \A c \in 1 .. Len(lookup) :
              /\ lookup[c].dist = Score(index, query_vector, lookup[c].idx)
              /\ \A p \in Positions(index) \ taken :
                    Score(index, query_vector, p) <= lookup[c].dist

\* C10: when search is given a document-id filter, every returned record has
\* a document id in the filter and the candidates are exactly the
\* min(top_k * 3, total) highest-scoring vectors; without a filter they are
\* exactly the min(top_k, total) highest-scoring vectors.
C10_FilterRestrictsResults ==
    Searched =>
        IF call.document_ids.some
        THEN /\ \A a \in 1 .. Len(ret.results) :
                   In(ret.results[a][1].document_id, call.document_ids.val)
             /\ PoolIsBest(Min(call.top_k * 3, Len(index)))
        ELSE PoolIsBest(Min(call.top_k, Len(index)))

-----------------------------------------------------------------------------
(* Threads on one VectorStore: the calls statement by statement *)

\* Each thread makes at most this many calls.
MaxCalls == 2

\* What the threads call the store with: batches of one document as
\* ingestion builds them, the documents' ids, and one query with the
\* smallest and the largest top_k, with and without a filter.
DocumentBatches ==
    {args \in WellFormed :
        /\ args[2] # <<>>
        /\ \A i \in 1 .. Len(args[2]) : /\ args[2][i].document_id = args[2][1].document_id
                                        /\ args[2][i].chunk_index = i - 1}
ThreadQuery == Axis(Dimension, 2)
ThreadTopKs == {1, MaxTopK}
ThreadFilters == {None, Some(<<"A">>)}

\* A thread is between calls and may make another.
Free(t) == threads[t].pc = "done" /\ threads[t].calls < MaxCalls

\* Thread t goes on as r; Begin starts a call with arguments args.
Becomes(t, r) == threads' = [threads EXCEPT ![t] = r]
Begin(t, op, pc, args) ==
    Becomes(t, [f \in DOMAIN Idle |->
                  IF f \in DOMAIN args THEN args[f]
                  ELSE IF f = "op" THEN op
                  ELSE IF f = "pc" THEN pc
                  ELSE IF f = "calls" THEN threads[t].calls + 1
                  ELSE Idle[f]])

\* The call of thread t ends with r: it returns or raises.
Ends(t, r) == Becomes(t, [threads[t] EXCEPT !.pc = "done", !.ret = r])

\* Acquire, but the block is entered whether the lock is free or not.
Acquire_NotExclusive(t) ==
    /\ threads[t].pc \in {"161", "259"}
    /\ lock' = t
    /\ Becomes(t, [threads[t] EXCEPT !.pc = IF @ = "161" THEN "163" ELSE "261"])
    /\ UNCHANGED <<index, metadata, document_chunks>>

\* with self._lock: entered when the lock is free, left on return and on
\* an exception alike.
Acquire(t) ==
    /\ threads[t].pc \in {"161", "259"}
    /\ lock = NoThread
    /\ lock' = t
    /\ Becomes(t, [threads[t] EXCEPT !.pc = IF @ = "161" THEN "163" ELSE "261"])
    /\ UNCHANGED <<index, metadata, document_chunks>>

Release == lock' = NoThread

\* add_embeddings up to the lock: the length check and the empty batch.
\* A chunk that is in the index (or is kept by a delete_document that is
\* rebuilding it), or that the other thread is adding, is not added again:
\* every upload has its own document id.
CallAddEmbeddings(t) ==
    /\ Free(t)
    /\ \E args \in DocumentBatches :
        /\ \A u \in Threads, i \in 1 .. Len(args[2]) :
              /\ ~In(args[2][i], metadata)
              /\ ~In(args[2][i], threads[u].chunks_metadata)
              /\ ~In(args[2][i], threads[u].new_metadata)
        /\ Len(metadata) + Len(args[2]) <= MaxChunks
        /\ IF LengthMismatch(args[1], args[2]) \/ args[1] = <<>>
           THEN Becomes(t, [Idle EXCEPT
                              !.op = "add_embeddings", !.calls = threads[t].calls + 1,
                              !.ret = add_embeddings(Current, args[1], args[2]).ret])
           ELSE Begin(t, "add_embeddings", "161",
                      [embeddings |-> args[1], chunks_metadata |-> args[2]])
    /\ UNCHANGED <<index, metadata, document_chunks, lock>>

\* Lines 163 to 167: the rows are made a matrix and normalised, and
\* start_idx is read.
AddNormalize(t) ==
    /\ threads[t].pc = "163"
    /\ IF ~IsMatrix(threads[t].embeddings)
       THEN Ends(t, Raise("ValueError")) /\ Release
       ELSE /\ Becomes(t, [threads[t] EXCEPT
                             !.pc = "170",
                             !.vectors = [i \in 1 .. Len(threads[t].embeddings) |->
                                            normalize_L2(threads[t].embeddings[i])],
                             !.start_idx = Len(metadata)])
            /\ UNCHANGED lock
    /\ UNCHANGED <<index, metadata, document_chunks>>

\* Line 170: index.add(vectors).
AddToIndex(t) ==
    /\ threads[t].pc = "170"
    /\ IF ~DimensionOk(threads[t].vectors)
       THEN Ends(t, Raise("AssertionError")) /\ Release /\ UNCHANGED index
       ELSE /\ index' = index \o threads[t].vectors
            /\ Becomes(t, [threads[t] EXCEPT !.pc = "173", !.i = 0])
            /\ UNCHANGED lock
    /\ UNCHANGED <<metadata, document_chunks>>

\* Lines 173 and 174: the loop's test and self.metadata.append(meta).
AddRecord(t) ==
    /\ threads[t].pc = "173"
    /\ IF threads[t].i >= Len(threads[t].chunks_metadata)
       THEN Ends(t, ReturnNone) /\ Release /\ UNCHANGED metadata
       ELSE /\ metadata' = Append(metadata, At(threads[t].chunks_metadata, threads[t].i))
            /\ Becomes(t, [threads[t] EXCEPT !.pc = "177"])
            /\ UNCHANGED lock
    /\ UNCHANGED <<index, document_chunks>>

\* Lines 177 to 179: the record's position is listed under its document.
AddPosition(t) ==
    /\ threads[t].pc = "177"
    /\ document_chunks' =
          AppendMapping(document_chunks, <<At(threads[t].chunks_metadata, threads[t].i)>>,
                        threads[t].start_idx + threads[t].i, 0)
    /\ Becomes(t, [threads[t] EXCEPT !.pc = "173", !.i = @ + 1])
    /\ UNCHANGED <<index, metadata, lock>>

\* delete_document begins; line 256, the membership test, is made before
\* the lock is taken.
CallDeleteDocument(t) ==
    /\ Free(t)
    /\ \E document_id \in {"A", "B"} :
          Begin(t, "delete_document", "256", [document_id |-> document_id])
    /\ UNCHANGED <<index, metadata, document_chunks, lock>>

DeleteUnknown(t) ==
    /\ threads[t].pc = "256"
    /\ IF threads[t].document_id \notin DOMAIN document_chunks
       THEN Ends(t, ReturnBool(FALSE))
       ELSE Becomes(t, [threads[t] EXCEPT !.pc = "259"])
    /\ UNCHANGED <<index, metadata, document_chunks, lock>>

\* Lines 261 to 271: the positions to remove are read from the mapping (a
\* KeyError when the document is no longer a key), and the survivors and
\* their vectors are collected (reconstruct fails on a position the index
\* does not hold).
DeleteCollect(t) ==
    /\ threads[t].pc = "261"
    /\ IF threads[t].document_id \notin DOMAIN document_chunks
       THEN Ends(t, Raise("KeyError")) /\ Release
       ELSE LET owned == document_chunks[threads[t].document_id]
                remove_indices == {owned[k] : k \in 1 .. Len(owned)}
                kept == KeptPositions(metadata, remove_indices)
            IN  IF \E k \in 1 .. Len(kept) : kept[k] >= Len(index)
                THEN Ends(t, Raise("RuntimeError")) /\ Release
                ELSE /\ Becomes(t, [threads[t] EXCEPT
                          !.pc = "98",
                          !.new_metadata = [k \in 1 .. Len(kept) |-> At(metadata, kept[k])],
                          !.embeddings_to_keep =
                              [k \in 1 .. Len(kept) |-> reconstruct(index, kept[k])]])
                     /\ UNCHANGED lock
    /\ UNCHANGED <<index, metadata, document_chunks>>

\* Line 274, _initialize_new, statement by statement (lines 98 to 100).
DeleteNewIndex(t) ==
    /\ threads[t].pc = "98"
    /\ index' = _initialize_new.index
    /\ Becomes(t, [threads[t] EXCEPT !.pc = "99"])
    /\ UNCHANGED <<metadata, document_chunks, lock>>

DeleteNewMetadata(t) ==
    /\ threads[t].pc = "99"
    /\ metadata' = _initialize_new.metadata
    /\ Becomes(t, [threads[t] EXCEPT !.pc = "100"])
    /\ UNCHANGED <<index, document_chunks, lock>>

DeleteNewMapping(t) ==
    /\ threads[t].pc = "100"
    /\ document_chunks' = _initialize_new.document_chunks
    /\ Becomes(t, [threads[t] EXCEPT !.pc = "276"])
    /\ UNCHANGED <<index, metadata, lock>>

\* Lines 276 to 279: the surviving vectors are added to the new index.
DeleteReAdd(t) ==
    /\ threads[t].pc = "276"
    /\ index' = IF threads[t].embeddings_to_keep # <<>>
                THEN index \o threads[t].embeddings_to_keep
                ELSE index
    /\ Becomes(t, [threads[t] EXCEPT !.pc = "282"])
    /\ UNCHANGED <<metadata, document_chunks, lock>>

\* Line 282: self.metadata = new_metadata.
DeleteSetMetadata(t) ==
    /\ threads[t].pc = "282"
    /\ metadata' = threads[t].new_metadata
    /\ Becomes(t, [threads[t] EXCEPT !.pc = "285"])
    /\ UNCHANGED <<index, document_chunks, lock>>

\* Lines 285 to 295: the mapping is rebuilt over the new metadata, the
\* document's key is discarded, the lock is left and True is returned.
DeleteSetMapping(t) ==
    /\ threads[t].pc = "285"
    /\ document_chunks' = Discard(RebuildMapping(metadata), threads[t].document_id)
    /\ Ends(t, ReturnBool(TRUE))
    /\ Release
    /\ UNCHANGED <<index, metadata>>

\* search takes no lock. Line 202: an index of no vectors gives [].
CallSearch(t) ==
    /\ Free(t)
    /\ \E top_k \in ThreadTopKs, document_ids \in ThreadFilters :
          Begin(t, "search", "202",
                [query_embedding |-> ThreadQuery, top_k |-> top_k,
                 document_ids |-> document_ids, similarity_threshold |-> 0])
    /\ UNCHANGED <<index, metadata, document_chunks, lock>>

SearchEmpty(t) ==
    /\ threads[t].pc = "202"
    /\ IF Len(index) = 0
       THEN Ends(t, ReturnList(<<>>))
       ELSE Becomes(t, [threads[t] EXCEPT !.pc = "211"])
    /\ UNCHANGED <<index, metadata, document_chunks, lock>>

\* Line 211: search_k is computed from index.ntotal as it is now.
SearchK(t) ==
    /\ threads[t].pc = "211"
    /\ Becomes(t, [threads[t] EXCEPT
                     !.pc = "213",
                     !.search_k = search_k(threads[t].top_k, Len(index), threads[t].document_ids)])
    /\ UNCHANGED <<index, metadata, document_chunks, lock>>

\* Line 213: index.search on the index as it is now.
SearchIndex(t) ==
    /\ threads[t].pc = "213"
    /\ LET query_vector == normalize_L2(threads[t].query_embedding)
           k == threads[t].search_k
       IN  \E ranking \in Lookups(index, query_vector, k),
              strict \in IF k <= 0 THEN BOOLEAN ELSE {TRUE} :
             LET found == index_search(index, ranking, query_vector, k, strict)
             IN  IF ~found.ok
                 THEN Ends(t, Raise("AssertionError"))
                 ELSE Becomes(t, [threads[t] EXCEPT !.pc = "216", !.hits = found.hits,
                                                   !.i = 1, !.results = <<>>])
    /\ UNCHANGED <<index, metadata, document_chunks, lock>>

\* Lines 216 to 235: one turn of the loop. self.metadata[idx] is read from
\* the metadata list as it is now, and raises IndexError when the list is
\* too short.
SearchCandidate(t) ==
    /\ threads[t].pc = "216"
    /\ IF threads[t].i > Len(threads[t].hits)
       THEN Ends(t, ReturnList(threads[t].results))
       ELSE LET hit == threads[t].hits[threads[t].i]
            IN  IF hit.idx # -1 /\ hit.idx >= Len(metadata)
                THEN Ends(t, Raise("IndexError"))
                ELSE LET results == Collect(metadata, <<hit>>, 1, threads[t].results,
                                            threads[t].top_k, threads[t].document_ids,
                                            threads[t].similarity_threshold)
                     IN  IF results # threads[t].results /\ Enough(results, threads[t].top_k)
                         THEN Ends(t, ReturnList(results))
                         ELSE Becomes(t, [threads[t] EXCEPT !.i = @ + 1, !.results = results])
    /\ UNCHANGED <<index, metadata, document_chunks, lock>>

\* get_chunk_count takes no lock either: line 243 reads len(self.metadata).
CallGetChunkCount(t) ==
    /\ Free(t)
    /\ Begin(t, "get_chunk_count", "243", [count |-> 0])
    /\ UNCHANGED <<index, metadata, document_chunks, lock>>

GetChunkCount(t) ==
    /\ threads[t].pc = "243"
    /\ Becomes(t, [threads[t] EXCEPT !.pc = "done", !.count = get_chunk_count(Current)])
    /\ UNCHANGED <<index, metadata, document_chunks, lock>>

\* What the threads leave alone.
unthreaded == <<pre, call, ret, lookup, disk, documents, job, response, chunker>>

ThreadsInit == Init

ThreadsNext ==
    /\ \E t \in Threads :
          \/ CallAddEmbeddings(t)
          \/ CallDeleteDocument(t)
          \/ CallSearch(t)
          \/ CallGetChunkCount(t)
          \/ Acquire(t)
          \/ AddNormalize(t)
          \/ AddToIndex(t)
          \/ AddRecord(t)
          \/ AddPosition(t)
          \/ DeleteUnknown(t)
          \/ DeleteCollect(t)
          \/ DeleteNewIndex(t)
          \/ DeleteNewMetadata(t)
          \/ DeleteNewMapping(t)
          \/ DeleteReAdd(t)
          \/ DeleteSetMetadata(t)
          \/ DeleteSetMapping(t)
          \/ SearchEmpty(t)
          \/ SearchK(t)
          \/ SearchIndex(t)
          \/ SearchCandidate(t)
          \/ GetChunkCount(t)
    /\ UNCHANGED unthreaded

SpecThreads == ThreadsInit /\ [][ThreadsNext]_vars

\* Thread t has finished a call of op.
Finished(t, op) == threads[t].op = op /\ threads[t].pc = "done"

\* Thread t is in a call that reads the store without the lock, and its
\* next statement reads the index or the metadata list.
Reading(t) ==
    \/ threads[t].op = "search" /\ threads[t].pc \in {"202", "211", "213", "216"}
    \/ threads[t].op = "get_chunk_count" /\ threads[t].pc = "243"

\* C11: a search that runs while an add_embeddings or a delete_document of
\* another thread is in flight never raises: every position the lookup
\* returned is a valid position of the metadata list when search reads it,
\* so every search ends by returning a list.
C11_ConcurrentSearchNeverRaises ==
    \A t \in Threads : Finished(t, "search") => threads[t].ret.kind = "return"

\* C12: no reader (a search or a count accessor) is ever at a statement that
\* reads the store while the index holds a number of vectors different from
\* the number of metadata records.
C12_ReadersSeeNoTornState ==
    \A t \in Threads : Reading(t) => Len(index) = Len(metadata)

-----------------------------------------------------------------------------
(* Persistence: save, and the load made by a new VectorStore *)

\* A JSON object is the sequence of its key and value pairs, in the order
\* they were written.
Keys(object) == {object[k][1] : k \in 1 .. Len(object)}
Get(object, key) == object[CHOOSE k \in 1 .. Len(object) : object[k][1] = key][2]

\* ChunkMetadata.to_dict
to_dict(m) ==
    <<<<"document_id", m.document_id>>, <<"filename", m.filename>>,
      <<"chunk_index", m.chunk_index>>, <<"content", m.content>>,
      <<"start_char", m.start_char>>, <<"end_char", m.end_char>>>>

\* cls(**data) accepts exactly the six parameters of ChunkMetadata.__init__.
Accepted(data) ==
    /\ Len(data) = 6
    /\ Keys(data) = {"document_id", "filename", "chunk_index", "content", "start_char", "end_char"}

\* from_dict, but start_char and end_char both read start_char.
from_dict_StartForEnd(data) ==
    ChunkMetadata(Get(data, "document_id"), Get(data, "filename"), Get(data, "chunk_index"),
                  Get(data, "content"), Get(data, "start_char"), Get(data, "start_char"))

\* ChunkMetadata.from_dict
from_dict(data) ==
    ChunkMetadata(Get(data, "document_id"), Get(data, "filename"), Get(data, "chunk_index"),
                  Get(data, "content"), Get(data, "start_char"), Get(data, "end_char"))

\* json.dump of a dict: its items, one after the other.
RECURSIVE Items(_)
Items(dict) ==
    IF DOMAIN dict = {} THEN <<>>
    ELSE LET key == CHOOSE key \in DOMAIN dict : TRUE
         IN  <<<<key, dict[key]>>>> \o Items(Discard(dict, key))

\* json.load of an object: the dict of its items.
Dict(object) == [key \in Keys(object) |-> Get(object, key)]

\* The document save writes to metadata.json (lines 132 to 135).
Dumped(S) ==
    [chunks |-> [k \in 1 .. Len(S.metadata) |-> to_dict(S.metadata[k])],
     document_chunks |-> Items(S.document_chunks)]

\* How a save can go: it completes; faiss.write_index fails before or after
\* it has cut the old file; the metadata file cannot be opened; json.dump
\* fails part way; the process is stopped between the two writes.
SaveOutcomes ==
    {"saved", "index not opened", "index cut short", "metadata not opened",
     "metadata cut short", "stopped"}

\* save under outcome o: the store directory afterwards and how the call
\* ends. Every exception becomes a VectorStoreError.
save(S, d, o) ==
    LET index_file ==
            CASE o = "index not opened" -> d.index_file
              [] o = "index cut short" -> File(TRUE, FALSE, <<>>)
              [] OTHER -> File(TRUE, TRUE, S.index)
        metadata_file ==
            CASE o = "saved" -> File(TRUE, TRUE, Dumped(S))
              [] o = "metadata cut short" -> File(TRUE, FALSE, NothingPersisted.metadata_file.content)
              [] OTHER -> d.metadata_file
    IN  [disk |-> [index_file |-> index_file, metadata_file |-> metadata_file],
         ret |-> CASE o = "saved" -> ReturnNone
                   [] o = "stopped" -> [ReturnNone EXCEPT !.kind = "stopped"]
                   [] OTHER -> Raise("VectorStoreError")]

\* A VectorStore object under construction: its index is None until
\* _initialize_or_load has set it.
Object(ix, md, dc) == [index |-> ix, metadata |-> md, document_chunks |-> dc]
New == Object(Some(_initialize_new.index), _initialize_new.metadata,
              _initialize_new.document_chunks)

\* _load, but a failed read leaves the object as it is.
_load_NoFallback(self, d) ==
    IF ~d.index_file.readable \/ ~d.metadata_file.readable THEN self
    ELSE Object(Some(d.index_file.content),
                [k \in 1 .. Len(d.metadata_file.content.chunks) |->
                   from_dict(d.metadata_file.content.chunks[k])],
                Dict(d.metadata_file.content.document_chunks))

\* _load: the index is read, then the metadata document is read and its
\* chunks are made records; any exception on the way gives a new empty
\* index.
_load(self, d) ==
    IF ~d.index_file.readable THEN New
    ELSE IF ~d.metadata_file.readable THEN New
    ELSE IF \E k \in 1 .. Len(d.metadata_file.content.chunks) :
               ~Accepted(d.metadata_file.content.chunks[k])
         THEN New
    ELSE Object(Some(d.index_file.content),
                [k \in 1 .. Len(d.metadata_file.content.chunks) |->
                   from_dict(d.metadata_file.content.chunks[k])],
                Dict(d.metadata_file.content.document_chunks))

_initialize_or_load(self, d) ==
    IF d.index_file.exists /\ d.metadata_file.exists THEN _load(self, d) ELSE New

\* VectorStore.__init__ over store directory d.
__init__(d) == _initialize_or_load(Object(None, <<>>, EmptyDict), d)

is_ready(self) == self.index.some

\* The process is running (it was not stopped in a save). A run is followed
\* up to the first load of a pair that does not match, and not beyond it.
Running == ret.kind # "stopped" /\ Len(index) = Len(metadata)

\* The process saves, or tries to.
Save ==
    /\ Running
    /\ \E o \in SaveOutcomes :
          /\ disk' = save(Current, disk, o).disk
          /\ ret' = save(Current, disk, o).ret
    /\ pre' = Current
    /\ call' = [op |-> "save", saved |-> FALSE]
    /\ UNCHANGED <<index, metadata, document_chunks, lookup, lock, threads, chunker,
                   documents, job, response>>

\* The process starts again: a new VectorStore is built from the store
\* directory.
Restart ==
    /\ LET self == __init__(disk)
       IN  Install(Store(self.index.val, self.metadata, self.document_chunks))
    /\ pre' = Current
    /\ call' = [op |-> "__init__", saved |-> call.op = "save" /\ ret.kind = "return"]
    /\ ret' = ReturnNone
    /\ UNCHANGED <<lookup, lock, threads, chunker, disk, documents, job, response>>

\* A document's batch is added, as ingestion adds it.
AddDocument ==
    /\ Running
    /\ \E args \in DocumentBatches :
          /\ \A i \in 1 .. Len(args[2]) : ~In(args[2][i], metadata)
          /\ Len(metadata) + Len(args[2]) <= MaxChunks
          /\ Install(add_embeddings(Current, args[1], args[2]).store)
          /\ ret' = add_embeddings(Current, args[1], args[2]).ret
          /\ call' = [op |-> "add_embeddings", embeddings |-> args[1],
                      chunks_metadata |-> args[2]]
    /\ pre' = Current
    /\ UNCHANGED <<lookup, rest>>

\* A document is deleted.
RemoveDocument ==
    /\ Running
    /\ \E document_id \in {"A", "B"} :
          /\ Install(delete_document(Current, document_id).store)
          /\ ret' = delete_document(Current, document_id).ret
          /\ call' = [op |-> "delete_document", document_id |-> document_id]
    /\ pre' = Current
    /\ UNCHANGED <<lookup, rest>>

PersistNext == AddDocument \/ RemoveDocument \/ Save \/ Restart

SpecPersist == Init /\ [][PersistNext]_vars

\* What get_chunk_count, get_document_count, the records and the mapping
\* of a newly built VectorStore are, against those of store S.
SameAsLoaded(self, S) ==
    /\ get_chunk_count(self) = get_chunk_count(S)
    /\ get_document_count(self) = get_document_count(S)
    /\ self.metadata = S.metadata
    /\ self.document_chunks = S.document_chunks

\* C13 (round trip): after a save that succeeded, a new VectorStore built
\* from the store directory has the same get_chunk_count(), the same
\* get_document_count(), the same records at the same positions and the
\* same mapping as the store that was saved.
C13_SaveLoadRoundTrip ==
    /\ (call.op = "save" /\ Returned) => SameAsLoaded(__init__(disk), Current)
    /\ (call.op = "__init__" /\ call.saved) => SameAsLoaded(Current, pre)

\* A process that saved three chunks of two documents and was started
\* again.
C13_Witness ==
    /\ call.op = "__init__"
    /\ call.saved
    /\ Len(metadata) = 3
    /\ get_document_count(Current) = 2

\* C14: building a VectorStore never fails on what is persisted: when an
\* artifact is missing or cannot be read, the store comes up with no
\* vectors, no records and an empty mapping, and is_ready() is true.
C14_LoadFallsBackToEmpty ==
    call.op = "__init__" =>
        /\ Returned
        /\ is_ready(__init__(disk))
        /\ (\/ ~disk.index_file.exists \/ ~disk.metadata_file.exists
            \/ ~disk.index_file.readable \/ ~disk.metadata_file.readable)
              => Current = _initialize_new

\* A process holding chunks that was started again over a readable index
\* file and a metadata file cut short.
C14_Witness ==
    /\ call.op = "__init__"
    /\ disk.index_file.readable
    /\ disk.index_file.content # <<>>
    /\ disk.metadata_file.exists
    /\ ~disk.metadata_file.readable
    /\ Len(pre.metadata) > 0

\* C15: whatever became of the saves before it (completed, failed between
\* the two writes, or stopped), a load gives a store whose index holds as
\* many vectors as there are records.
C15_LoadedPairMatches == call.op = "__init__" => Len(index) = Len(metadata)

-----------------------------------------------------------------------------
(* Ingestion: DocumentStore and process_document *)

\* None where a string and where a number is expected.
NoString == [some |-> FALSE, val |-> ""]
NoNumber == [some |-> FALSE, val |-> 0]

\* An exception: its class and str(e). NoException: the try block ended.
Exception(class, message) == [raised |-> TRUE, class |-> class, message |-> message]
NoException == [raised |-> FALSE, class |-> "", message |-> ""]

\* DocumentStore.create_document
create_document(docs, document_id, filename) ==
    [d \in DOMAIN docs \cup {document_id} |->
        IF d = document_id
        THEN [document_id |-> document_id, filename |-> filename, status |-> "pending",
              chunk_count |-> 0, processed_at |-> NoString, error |-> NoString]
        ELSE docs[d]]

\* update_status, but processed_at is set whatever the status.
update_status_AlwaysStamped(docs, document_id, status, chunk_count, error) ==
    IF document_id \notin DOMAIN docs THEN docs
    ELSE [docs EXCEPT ![document_id] =
            [@ EXCEPT !.status = status,
                      !.chunk_count = IF chunk_count.some THEN chunk_count.val ELSE @,
                      !.error = IF error.some THEN error ELSE @,
                      !.processed_at = Some("now")]]

\* DocumentStore.update_status: nothing is done for an id that has no record.
update_status(docs, document_id, status, chunk_count, error) ==
    IF document_id \notin DOMAIN docs THEN docs
    ELSE [docs EXCEPT ![document_id] =
            [@ EXCEPT !.status = status,
                      !.chunk_count = IF chunk_count.some THEN chunk_count.val ELSE @,
                      !.error = IF error.some THEN error ELSE @,
                      !.processed_at = IF status = "completed" THEN Some("now") ELSE @]]

\* The chunks TextChunker.chunk_text gives for the text of an uploaded file.
\* The two chunks of a.txt have 500 and 501 characters.
TextChunk(content, start_char, end_char, chunk_index) ==
    [content |-> content, start_char |-> start_char, end_char |-> end_char,
     chunk_index |-> chunk_index]
RECURSIVE Filler(_)
Filler(n) ==
    IF n = 0 THEN ""
    ELSE LET half == Filler(n \div 2)
         IN  IF n % 2 = 0 THEN half \o half ELSE half \o half \o "x"
ChunksOf(filename) ==
    CASE filename = "a.txt" -> <<TextChunk("alpha " \o Filler(494), 0, 500, 0),
                                 TextChunk("beta " \o Filler(496), 450, 951, 1)>>
      [] filename = "b.txt" -> <<TextChunk("beta", 0, 4, 0), TextChunk("alpha", 2, 7, 1)>>
      [] OTHER -> <<TextChunk("gamma", 0, 5, 0)>>

\* What the collaborators of one process_document run do: the parser gives
\* text, too little text, or fails; the embedding service is configured or
\* not, and its requests succeed or fail; the save succeeds or fails. The
\* first failure ends the run, so at most one collaborator fails in a run.
Environments ==
    {env \in [parse : {"text", "short", "DocumentParseError"},
              key : BOOLEAN,
              embed : {"embeddings", "EmbeddingError"},
              save : {"saved", "metadata not opened"}] :
        Cardinality({f \in {"parse", "key", "embed", "save"} :
                        CASE f = "parse" -> env.parse # "text"
                          [] f = "key" -> ~env.key
                          [] f = "embed" -> env.embed # "embeddings"
                          [] OTHER -> env.save # "saved"}) <= 1}

\* embed_batch, awaited: the embeddings of the texts, or an EmbeddingError.
embed_batch_Awaited(env, texts) ==
    IF env.embed = "embeddings"
    THEN [kind |-> "list", val |-> [i \in 1 .. Len(texts) |-> EmbeddingOf(texts[i])],
          exception |-> NoException]
    ELSE [kind |-> "raise", val |-> <<>>,
          exception |-> Exception("EmbeddingError", "Failed to generate embedding")]

\* Line 176: embedding_service.embed_batch(chunk_texts). embed_batch is an
\* async def and the call is not awaited, so what is bound to embeddings is
\* a coroutine object; no request is made.
embed_batch(env, texts) == [kind |-> "coroutine", val |-> <<>>, exception |-> NoException]

\* What the try block of process_document leaves: the store, the store
\* directory, the exception that ended it if one did, and the number of
\* add_embeddings calls made.
Tried(S, d, e, adds) == [store |-> S, disk |-> d, exception |-> e, adds |-> adds]

\* Lines 152 to 195: parse, chunk, embed, add and save.
Attempt(S, d, document_id, filename, env) ==
    LET chunks == ChunksOf(filename)
        chunk_texts == [i \in 1 .. Len(chunks) |-> chunks[i].content]
        embeddings == embed_batch(env, chunk_texts)
        chunk_metadata ==
            [i \in 1 .. Len(chunks) |->
               ChunkMetadata(document_id, filename, chunks[i].chunk_index, chunks[i].content,
                             chunks[i].start_char, chunks[i].end_char)]
        added == add_embeddings(S, embeddings.val, chunk_metadata)
        saved == save(added.store, d, env.save)
    IN  IF env.parse = "DocumentParseError"
        THEN Tried(S, d, Exception("DocumentParseError", "File not found"), 0)
        ELSE IF env.parse = "short"
        THEN Tried(S, d, Exception("DocumentParseError",
                                   "Document contains no usable text content"), 0)
        ELSE IF chunks = <<>>
        THEN Tried(S, d, Exception("DocumentParseError", "No chunks created from document"), 0)
        ELSE IF ~env.key
        THEN Tried(S, d, Exception("EmbeddingError", "GEMINI_API_KEY not configured"), 0)
        ELSE IF embeddings.kind = "raise" THEN Tried(S, d, embeddings.exception, 0)
        ELSE IF embeddings.kind = "coroutine"
        THEN Tried(S, d, Exception("TypeError", "object of type 'coroutine' has no len()"), 0)
        ELSE IF added.ret.kind = "raise"
        THEN Tried(S, d, Exception(added.ret.exception, "Embeddings and metadata length mismatch"), 1)
        ELSE IF saved.ret.kind = "raise"
        THEN Tried(added.store, saved.disk,
                   Exception("VectorStoreError", "Failed to save vector store"), 1)
        ELSE Tried(added.store, saved.disk, NoException, 1)

\* Concluded, but without the last handler, except Exception.
Concluded_NoCatchAll(docs, document_id, e, n) ==
    IF ~e.raised
    THEN [documents |-> update_status(docs, document_id, "completed", Some(n), NoString),
          ret |-> ReturnNone]
    ELSE IF e.class \in {"DocumentParseError", "EmbeddingError", "VectorStoreError"}
    THEN [documents |-> update_status(docs, document_id, "failed", NoNumber, Some(e.message)),
          ret |-> ReturnNone]
    ELSE [documents |-> docs, ret |-> Raise(e.class)]

\* Lines 197 to 220: COMPLETED with the number of chunks when the try block
\* ended, FAILED with the reason in each of the four handlers.
Concluded(docs, document_id, e, n) ==
    IF ~e.raised
    THEN [documents |-> update_status(docs, document_id, "completed", Some(n), NoString),
          ret |-> ReturnNone]
    ELSE IF e.class \in {"DocumentParseError", "EmbeddingError", "VectorStoreError"}
    THEN [documents |-> update_status(docs, document_id, "failed", NoNumber, Some(e.message)),
          ret |-> ReturnNone]
    ELSE [documents |-> update_status(docs, document_id, "failed", NoNumber,
                                      Some("Processing failed: " \o e.message)),
          ret |-> ReturnNone]

\* process_document, but each chunk is embedded and added on its own, and
\* the embedding of the last chunk is the one that fails.
process_document_PerChunk(S, d, docs, document_id, filename, env) ==
    LET chunks == ChunksOf(filename)
        n == IF env.embed = "embeddings" THEN Len(chunks) ELSE Len(chunks) - 1
        added == add_embeddings(S, [i \in 1 .. n |-> EmbeddingOf(chunks[i].content)],
                                [i \in 1 .. n |->
                                   ChunkMetadata(document_id, filename, chunks[i].chunk_index,
                                                 chunks[i].content, chunks[i].start_char,
                                                 chunks[i].end_char)])
        e == IF env.embed = "embeddings" THEN NoException
             ELSE Exception("EmbeddingError", "Failed to generate embedding")
        concluded == Concluded(update_status(docs, document_id, "processing", NoNumber, NoString),
                               document_id, e, Len(chunks))
    IN  [store |-> added.store, disk |-> d, documents |-> concluded.documents,
         ret |-> concluded.ret, exception |-> e, adds |-> n]

\* process_document: the status becomes PROCESSING, the try block runs, and
\* the status becomes COMPLETED or FAILED.
process_document(S, d, docs, document_id, filename, env) ==
    LET tried == Attempt(S, d, document_id, filename, env)
        concluded == Concluded(update_status(docs, document_id, "processing", NoNumber, NoString),
                               document_id, tried.exception, Len(ChunksOf(filename)))
    IN  [store |-> tried.store, disk |-> tried.disk, documents |-> concluded.documents,
         ret |-> concluded.ret, exception |-> tried.exception, adds |-> tried.adds]

-----------------------------------------------------------------------------
(* The ask pipeline: routes.ask_question *)

\* The length to which a citation's content is cut.
PreviewLength == 500

\* A score as the client sees it, round(score, 4): in units of 1/10000,
\* the nearest to num / den, the even one of two equally near.
Round4(num, den) ==
    LET scaled == 10000 * (IF num < 0 THEN -num ELSE num)
        q == scaled \div den
        twice == 2 * (scaled % den)
        up == twice > den \/ (twice = den /\ q % 2 = 1)
        r == IF up THEN q + 1 ELSE q
    IN  IF num < 0 THEN -r ELSE r

RECURSIVE SumOf(_)
SumOf(scores) == IF scores = <<>> THEN 0 ELSE Head(scores) + SumOf(Tail(scores))
MaxOf(scores) == CHOOSE x \in {scores[k] : k \in 1 .. Len(scores)} :
                    \A k \in 1 .. Len(scores) : scores[k] <= x
MinOf(scores) == CHOOSE x \in {scores[k] : k \in 1 .. Len(scores)} :
                    \A k \in 1 .. Len(scores) : scores[k] >= x

\* Lines 157 to 165: the statistics are 0.0 unless there are results.
Statistics(results) ==
    LET scores == [k \in 1 .. Len(results) |-> results[k][2]]
    IN  IF results = <<>> THEN [avg |-> 0, max |-> 0, min |-> 0]
        ELSE [avg |-> Round4(SumOf(scores), Len(scores) * Scale * Scale),
              max |-> Round4(MaxOf(scores), Scale * Scale),
              min |-> Round4(MinOf(scores), Scale * Scale)]

\* SourceChunk, but the content is cut when it has 500 characters or more.
SourceChunk_CutAtLimit(chunk_meta, score) ==
    [document_id |-> chunk_meta.document_id, filename |-> chunk_meta.filename,
     chunk_index |-> chunk_meta.chunk_index,
     content |-> IF Len(chunk_meta.content) >= PreviewLength
                 THEN SubSeq(chunk_meta.content, 1, PreviewLength) \o "..."
                 ELSE chunk_meta.content,
     similarity_score |-> Round4(score, Scale * Scale)]

\* Lines 180 to 189: the citations.
SourceChunk(chunk_meta, score) ==
    [document_id |-> chunk_meta.document_id, filename |-> chunk_meta.filename,
     chunk_index |-> chunk_meta.chunk_index,
     content |-> IF Len(chunk_meta.content) > PreviewLength
                 THEN SubSeq(chunk_meta.content, 1, PreviewLength) \o "..."
                 ELSE chunk_meta.content,
     similarity_score |-> Round4(score, Scale * Scale)]

\* LLMService.generate_with_no_context
generate_with_no_context(question) ==
    "I couldn't find relevant information in the provided documents to answer your question: '"
        \o question
        \o "'\n\nThis could mean:\n1. The topic isn't covered in the uploaded documents\n"
        \o "2. The question may need to be rephrased\n"
        \o "3. More relevant documents may need to be uploaded"

\* The API key the service may be configured with ("" is no key), and what
\* the embedding and the generation API say when a request fails.
ApiKeys == {"K1abcdefghijklmnop"}
EmbedCause == "503 embedding service unavailable"
LLMCause == "429 quota exceeded"

\* s[-n:] for n > 0
LastChars(s, n) == IF Len(s) <= n THEN s ELSE SubSeq(s, Len(s) - n + 1, Len(s))

\* LLMService.generate_answer: the model is asked with the source line and
\* the full content of every chunk; without chunks a fixed sentence is
\* returned. When the request fails, the LLMError names the cause and the
\* first ten and the last five characters of the API key.
generate_answer(api_key, question, context_chunks, llm) ==
    LET context == [k \in 1 .. Len(context_chunks) |->
                      "[Source " \o ToString(k) \o ": " \o context_chunks[k][1].filename
                         \o ", chunk " \o ToString(context_chunks[k][1].chunk_index + 1) \o "]\n"
                         \o context_chunks[k][1].content]
        masked_key == SubSeq(api_key, 1, Min(10, Len(api_key))) \o "..." \o LastChars(api_key, 5)
        debug_info == "[Key: " \o masked_key \o ", Model: gemini]"
    IN  IF question = ""
        THEN [exception |-> Exception("LLMError", "Empty question provided"),
              answer |-> "", context |-> <<>>, cause |-> "Empty question provided"]
        ELSE IF context = <<>>
        THEN [exception |-> NoException, context |-> <<>>, cause |-> "",
              answer |-> "I couldn't find any relevant information in the documents to answer your question."]
        ELSE IF llm = "LLMError"
        THEN [exception |-> Exception("LLMError", "Failed to generate answer: " \o LLMCause
                                                      \o " " \o debug_info),
              answer |-> "", context |-> context, cause |-> LLMCause]
        ELSE [exception |-> NoException, answer |-> "generated answer", context |-> context,
              cause |-> ""]

\* HTTPException, but a failure is reported without its cause.
HTTPException_Generic(status_code, detail) ==
    [NoResponse EXCEPT !.status_code = status_code,
                       !.detail = IF status_code = 500 THEN "Processing error" ELSE detail]

\* An HTTPException with a status code and a detail.
HTTPException(status_code, detail) ==
    [NoResponse EXCEPT !.status_code = status_code, !.detail = detail]

\* settings.similarity_threshold, 0.3.
settings_similarity_threshold == (3 * Scale * Scale) \div 10

\* What the collaborators of one request do: the API key is configured or
\* not (one setting, read by EmbeddingService and by LLMService), the
\* embedding of the question is obtained or the retries are used up, the
\* model answers or fails. The first failure ends the request.
AskEnvironments ==
    {env \in [key : BOOLEAN, embed : {"embedding", "RetryError"}, llm : {"answer", "LLMError"}] :
        Cardinality({f \in {"key", "embed", "llm"} :
                        CASE f = "key" -> ~env.key
                          [] f = "embed" -> env.embed # "embedding"
                          [] OTHER -> env.llm # "answer"}) <= 1}

\* What a request ends with: the response, the collaborators called, which
\* method of LLMService was called, the chunks search returned, the context
\* the model was given, and the cause of the failure if there was one.
Asked(resp, called, generated, results, context, cause) ==
    [response |-> resp, called |-> called, generated |-> generated, results |-> results,
     context |-> context, cause |-> cause]

\* Lines 124 to 142, up to the await: the request is refused when there are
\* no chunks or no API key, and otherwise waits for the question's
\* embedding.
Began_Unchecked(S, api_key) ==
    IF api_key = ""
    THEN [awaiting |-> FALSE, called |-> {"EmbeddingService"},
          cause |-> "GEMINI_API_KEY not configured",
          response |-> HTTPException(500, "Embedding error: GEMINI_API_KEY not configured")]
    ELSE [awaiting |-> TRUE, called |-> {"EmbeddingService", "embed_query"}, cause |-> "",
          response |-> NoResponse]
Began(S, api_key) ==
    IF get_chunk_count(S) = 0
    THEN [awaiting |-> FALSE, called |-> {}, cause |-> "",
          response |-> HTTPException(400,
               "No documents have been processed yet. Please upload documents first.")]
    ELSE IF api_key = ""
    THEN [awaiting |-> FALSE, called |-> {"EmbeddingService"},
          cause |-> "GEMINI_API_KEY not configured",
          response |-> HTTPException(500, "Embedding error: GEMINI_API_KEY not configured")]
    ELSE [awaiting |-> TRUE, called |-> {"EmbeddingService", "embed_query"}, cause |-> "",
          response |-> NoResponse]

\* Answered, but generate_answer is called whether or not search returned
\* anything.
Answered_AlwaysGenerates(S, ranking, api_key, question, query_embedding, top_k, document_ids, env) ==
    LET found == search(S, ranking, TRUE, query_embedding, top_k, document_ids,
                        settings_similarity_threshold)
        results == found.ret.results
        stats == Statistics(results)
        generation == generate_answer(api_key, question, results, env.llm)
        sources == [k \in 1 .. Len(results) |-> SourceChunk(results[k][1], results[k][2])]
    IN  IF env.embed = "RetryError" \/ found.ret.kind = "raise" \/ generation.exception.raised
        THEN Asked(HTTPException(500, "Processing failed"), {}, "generate_answer", <<>>, <<>>, "")
        ELSE Asked([NoResponse EXCEPT !.status_code = 200, !.answer = generation.answer,
                                      !.sources = sources,
                                      !.chunks_retrieved = Len(results),
                                      !.avg_similarity_score = stats.avg,
                                      !.max_similarity_score = stats.max,
                                      !.min_similarity_score = stats.min],
                   {"search", "LLMService", "generate_answer"}, "generate_answer", results,
                   generation.context, "")

\* Lines 142 to 222: what follows the await of the question's embedding.
\* The ranking is the one the index produces for the query.
Answered(S, ranking, api_key, question, query_embedding, top_k, document_ids, env) ==
    LET found == search(S, ranking, TRUE, query_embedding, top_k, document_ids,
                        settings_similarity_threshold)
        results == found.ret.results
        stats == Statistics(results)
        generation == generate_answer(api_key, question, results, env.llm)
        sources == [k \in 1 .. Len(results) |-> SourceChunk(results[k][1], results[k][2])]
        answer(text) ==
            [NoResponse EXCEPT !.status_code = 200, !.answer = text, !.sources = sources,
                               !.chunks_retrieved = Len(results),
                               !.avg_similarity_score = stats.avg,
                               !.max_similarity_score = stats.max,
                               !.min_similarity_score = stats.min]
    IN  IF env.embed = "RetryError"
        THEN Asked(HTTPException(500, "Processing failed: " \o EmbedCause),
                   {}, "none", <<>>, <<>>, EmbedCause)
        ELSE IF found.ret.kind = "raise"
        THEN Asked(HTTPException(500, "Processing error: " \o found.ret.exception),
                   {"search"}, "none", <<>>, <<>>, found.ret.exception)
        ELSE IF results = <<>>
        THEN Asked(answer(generate_with_no_context(question)),
                   {"search", "LLMService", "generate_with_no_context"},
                   "generate_with_no_context", results, <<>>, "")
        ELSE IF generation.exception.raised
        THEN Asked(HTTPException(500, "LLM error: " \o generation.exception.message),
                   {"search", "LLMService", "generate_answer"},
                   "generate_answer", results, generation.context, generation.cause)
        ELSE Asked(answer(generation.answer), {"search", "LLMService", "generate_answer"},
                   "generate_answer", results, generation.context, "")

-----------------------------------------------------------------------------
(* The service: the endpoints and the background job on one event loop *)

\* The store directory and the document records a service may start with:
\* nothing, or what an earlier run left after it ingested document A.
StoreOfA ==
    add_embeddings(_initialize_new, <<Axis(1, 3), Diagonal(1)>>,
                   [i \in 1 .. 2 |->
                      ChunkMetadata("A", "a.txt", ChunksOf("a.txt")[i].chunk_index,
                                    ChunksOf("a.txt")[i].content,
                                    ChunksOf("a.txt")[i].start_char,
                                    ChunksOf("a.txt")[i].end_char)]).store
PersistedA == save(StoreOfA, NothingPersisted, "saved").disk
RecordsOfA ==
    update_status(create_document(EmptyDict, "A", "a.txt"), "A", "completed", Some(2), NoString)

\* The ids uuid4 gives to uploads (one id is as good as another: they are
\* named in the order of issue), the files uploaded, the questions asked
\* and the embeddings the service gives them.
UploadIds == {"B", "C"}
NextId(issued) ==
    IF "B" \notin issued THEN "B" ELSE IF "C" \notin issued THEN "C" ELSE ""
UploadFiles ==
    {[filename |-> "b.txt", size |-> 1], [filename |-> "c.txt", size |-> 1],
     [filename |-> "", size |-> 1], [filename |-> "d.exe", size |-> 1],
     [filename |-> "b.txt", size |-> 0]}
Questions == {"what is alpha?"}
AskQueries == {Diagonal(1), Diagonal(-1)}

\* Path(filename).suffix of the file names uploaded.
Suffix(filename) ==
    IF Len(filename) > 4 /\ SubSeq(filename, Len(filename) - 3, Len(filename) - 3) = "."
    THEN SubSeq(filename, Len(filename) - 3, Len(filename))
    ELSE ""

\* get_vector_store and get_document_store: the VectorStore and the
\* DocumentStore of the process are built from what is persisted.
ApiInit ==
    /\ \E start \in {<<NothingPersisted, EmptyDict>>, <<PersistedA, RecordsOfA>>} :
          /\ disk = start[1]
          /\ documents = start[2]
          /\ LET self == __init__(start[1])
             IN  /\ index = self.index.val
                 /\ metadata = self.metadata
                 /\ document_chunks = self.document_chunks
                 /\ pre = Store(self.index.val, self.metadata, self.document_chunks)
    /\ call = [op |-> "__init__", saved |-> FALSE]
    /\ ret = ReturnNone
    /\ lookup = <<>>
    /\ lock = NoThread
    /\ threads = [t \in Threads |-> Idle]
    /\ job = NoJob
    /\ response = NoResponse
    /\ chunker = NoChunker

\* The last request left the stores, the store directory and the queue as
\* they were (an upload refused, a delete of an unknown document, a question
\* answered or refused). It is recorded and the run is not continued from
\* it: every continuation is a continuation of the state the request was
\* made in.
Quiet ==
    \/ call.op = "upload_document" /\ call.document_id = ""
    \/ call.op = "delete_document_endpoint" /\ response.status_code = 404
    \/ call.op = "ask_question" /\ job.asking = <<>>

\* POST /upload
Upload ==
    /\ ~Quiet
    /\ \E file \in UploadFiles :
          IF file.filename = ""
          THEN /\ response' = HTTPException(400, "Filename is required")
               /\ call' = [op |-> "upload_document", filename |-> file.filename, document_id |-> ""]
               /\ UNCHANGED <<documents, job>>
          ELSE IF Suffix(file.filename) \notin {".pdf", ".txt"}
          THEN /\ response' = HTTPException(400, "Unsupported file format: "
                                                   \o Suffix(file.filename))
               /\ call' = [op |-> "upload_document", filename |-> file.filename, document_id |-> ""]
               /\ UNCHANGED <<documents, job>>
          ELSE IF file.size = 0
          THEN /\ response' = HTTPException(400, "Empty file uploaded")
               /\ call' = [op |-> "upload_document", filename |-> file.filename, document_id |-> ""]
               /\ UNCHANGED <<documents, job>>
          ELSE \E document_id \in {NextId(job.issued)} \ {""} :
                 /\ documents' = create_document(documents, document_id, file.filename)
                 /\ job' = [job EXCEPT
                              !.issued = @ \cup {document_id},
                              !.queued = @ \cup {[document_id |-> document_id,
                                                  filename |-> file.filename]}]
                 /\ response' = [NoResponse EXCEPT !.status_code = 200,
                                                   !.document_id = document_id,
                                                   !.status = "pending"]
                 /\ call' = [op |-> "upload_document", filename |-> file.filename,
                             document_id |-> document_id]
    /\ pre' = Current
    /\ ret' = ReturnNone
    /\ UNCHANGED <<index, metadata, document_chunks, lookup, lock, threads, chunker, disk>>

\* The background task of an upload: process_document.
ProcessDocument ==
    /\ ~Quiet
    /\ \E task \in job.queued, env \in Environments :
          LET r == process_document(Current, disk, documents, task.document_id,
                                    task.filename, env)
          IN  /\ Install(r.store)
              /\ disk' = r.disk
              /\ documents' = r.documents
              /\ ret' = r.ret
              /\ job' = [job EXCEPT !.queued = @ \ {task}]
              /\ call' = [op |-> "process_document", document_id |-> task.document_id,
                          filename |-> task.filename, env |-> env,
                          exception |-> r.exception, adds |-> r.adds,
                          documents |-> documents]
    /\ pre' = Current
    /\ UNCHANGED <<lookup, lock, threads, chunker, response>>

\* routes.delete_document, but the record is not looked up first.
delete_document_route_Unchecked(S, dsk, docs, document_id, o) ==
    LET deleted == delete_document(S, document_id)
        saved == save(deleted.store, dsk, o)
        failed == saved.ret.kind = "raise"
    IN  [store |-> deleted.store, disk |-> saved.disk, ret |-> saved.ret,
         called |-> {"delete_document", "save"},
         documents |-> IF failed THEN docs
                       ELSE [d \in DOMAIN docs \ {document_id} |-> docs[d]],
         response |-> IF failed
                      THEN HTTPException(500, "An internal error occurred. Please try again later.")
                      ELSE [NoResponse EXCEPT !.status_code = 200,
                                              !.document_id = document_id]]

\* routes.delete_document (lines 280 to 300): the vector store, the disk, the
\* document store and the response it leaves, and the VectorStore methods
\* it called. A failing save leaves the handler at line 295; the global
\* handler of main.py answers 500.
delete_document_route(S, dsk, docs, document_id, o) ==
    LET deleted == delete_document(S, document_id)
        saved == save(deleted.store, dsk, o)
        failed == saved.ret.kind = "raise"
    IN  IF document_id \notin DOMAIN docs
        THEN [store |-> S, disk |-> dsk, ret |-> ReturnNone, called |-> {},
              documents |-> docs,
              response |-> HTTPException(404, "Document not found")]
        ELSE [store |-> deleted.store, disk |-> saved.disk, ret |-> saved.ret,
              called |-> {"delete_document", "save"},
              documents |-> IF failed THEN docs
                            ELSE [d \in DOMAIN docs \ {document_id} |-> docs[d]],
              response |-> IF failed
                           THEN HTTPException(500, "An internal error occurred. Please try again later.")
                           ELSE [NoResponse EXCEPT !.status_code = 200,
                                                   !.document_id = document_id]]

\* DELETE /documents/{document_id}
DeleteEndpoint ==
    /\ ~Quiet
    /\ \E document_id \in {"A"} \cup UploadIds, o \in {"saved", "metadata not opened"} :
          LET r == delete_document_route(Current, disk, documents, document_id, o)
          IN  /\ call' = [op |-> "delete_document_endpoint", document_id |-> document_id,
                          known |-> document_id \in DOMAIN documents,
                          called |-> r.called]
              /\ Install(r.store)
              /\ disk' = r.disk
              /\ ret' = r.ret
              /\ response' = r.response
              /\ documents' = r.documents
    /\ pre' = Current
    /\ UNCHANGED <<lookup, lock, threads, chunker, job>>

\* POST /ask up to the await of the question's embedding (lines 124 to 142).
AskBegin ==
    /\ ~Quiet
    /\ job.asking = <<>>
    /\ \E question \in Questions, top_k \in {1, MaxTopK},
          document_ids \in {None, Some(<<"C">>)}, api_key \in {""} \cup ApiKeys :
          LET r == Began(Current, api_key)
          IN  /\ call' = [op |-> "ask_question", question |-> question, top_k |-> top_k,
                          document_ids |-> document_ids, api_key |-> api_key,
                          env |-> [key |-> api_key # "", embed |-> "embedding",
                                   llm |-> "answer"],
                          awaited |-> FALSE, query_embedding |-> <<>>,
                          called |-> r.called, cause |-> r.cause,
                          generated |-> "none", results |-> <<>>, context |-> <<>>]
              /\ response' = IF r.awaiting THEN response ELSE r.response
              /\ job' = IF r.awaiting
                        THEN [job EXCEPT !.asking = <<[question |-> question, top_k |-> top_k,
                                                      document_ids |-> document_ids,
                                                      api_key |-> api_key]>>]
                        ELSE job
    /\ pre' = Current
    /\ ret' = ReturnNone
    /\ UNCHANGED <<index, metadata, document_chunks, lookup, lock, threads, chunker, disk, documents>>

\* POST /ask from the embedding of the question on (lines 142 to 222).
AskEnd ==
    /\ ~Quiet
    /\ job.asking # <<>>
    /\ LET request == job.asking[1]
       IN  \E query_embedding \in AskQueries, env \in {e \in AskEnvironments : e.key} :
             \E ranking \in Lookups(index, normalize_L2(query_embedding),
                                    search_k(request.top_k, Len(index), request.document_ids)) :
               LET r == Answered(Current, ranking, request.api_key, request.question,
                                 query_embedding, request.top_k, request.document_ids, env)
               IN  /\ response' = r.response
                   /\ call' = [op |-> "ask_question", question |-> request.question,
                               top_k |-> request.top_k, document_ids |-> request.document_ids,
                               api_key |-> request.api_key,
                               env |-> env, awaited |-> TRUE,
                               query_embedding |-> query_embedding,
                               called |-> {"EmbeddingService", "embed_query"} \cup r.called,
                               cause |-> r.cause,
                               generated |-> r.generated, results |-> r.results,
                               context |-> r.context]
    /\ job' = [job EXCEPT !.asking = <<>>]
    /\ pre' = Current
    /\ ret' = ReturnNone
    /\ UNCHANGED <<index, metadata, document_chunks, lookup, lock, threads, chunker, disk, documents>>

ApiNext == Upload \/ ProcessDocument \/ DeleteEndpoint \/ AskBegin \/ AskEnd

SpecApi == ApiInit /\ [][ApiNext]_vars

-----------------------------------------------------------------------------
(* Properties of ingestion and of the ask pipeline *)

\* The last step was a run of process_document, and how it went.
Processed == call.op = "process_document"
Recorded == Processed /\ call.document_id \in DOMAIN documents
MarkedFailed == Recorded /\ documents[call.document_id].status = "failed"
AllSucceed ==
    /\ call.env.parse = "text"
    /\ call.env.key
    /\ call.env.embed = "embeddings"
    /\ call.env.save = "saved"

\* The chunks store S holds of a document: vectors with their records.
ChunksIn(S, document_id) ==
    {<<S.index[k], S.metadata[k]>> :
        k \in {k \in 1 .. Len(S.metadata) : S.metadata[k].document_id = document_id}}

\* C16: when a run of process_document ends with the document marked
\* FAILED, the index holds no chunk of that document and the store is the
\* one the run began with.
C16_FailedJobLeavesIndexUntouched ==
    MarkedFailed =>
        /\ OwnedBy(metadata, call.document_id) = {}
        /\ Current = pre

\* A run that failed on a store holding the two chunks of document A.
C16_Witness ==
    /\ MarkedFailed
    /\ call.exception.raised
    /\ Len(pre.index) = 2

\* C17: a run of process_document returns; when a step failed and the
\* document's record exists, its status is FAILED with a reason that is not
\* empty; the records and the chunks of every other document are as they
\* were.
C17_JobFailureIsRecordedAndContained ==
    Processed =>
        /\ Returned
        /\ (call.exception.raised /\ Recorded) =>
              /\ documents[call.document_id].status = "failed"
              /\ documents[call.document_id].error.some
              /\ documents[call.document_id].error.val # ""
        /\ \A d \in (DOMAIN call.documents \cup {"A"} \cup UploadIds) \ {call.document_id} :
              /\ d \in DOMAIN call.documents =>
                    d \in DOMAIN documents /\ documents[d] = call.documents[d]
              /\ ChunksIn(Current, d) = ChunksIn(pre, d)

\* A run ended by an exception none of the three named handlers takes, while
\* document A has its record and its chunks.
C17_Witness ==
    /\ Recorded
    /\ call.exception.raised
    /\ call.exception.class \notin {"DocumentParseError", "EmbeddingError", "VectorStoreError"}
    /\ "A" \in DOMAIN documents
    /\ ChunksIn(Current, "A") # {}

\* C18: a run of process_document calls add_embeddings at most once, and
\* only with the embeddings of all chunks obtained; in every state the index
\* holds of a document either nothing or as many chunks as the chunker makes
\* of its file.
C18_ChunksAddedAllOrNone ==
    /\ Processed => /\ call.adds <= 1
                    /\ call.adds = 1 => call.env.embed = "embeddings"
    /\ \A k \in 1 .. Len(metadata) :
          Cardinality(OwnedBy(metadata, metadata[k].document_id))
              = Len(ChunksOf(metadata[k].filename))

\* A run on a two-chunk file has ended, and the index holds all chunks of
\* document A and none of the document of the run.
C18_Witness ==
    /\ Processed
    /\ Len(ChunksOf(call.filename)) = 2
    /\ OwnedBy(metadata, call.document_id) = {}
    /\ Cardinality(OwnedBy(metadata, "A")) = 2

\* C19: when parsing, chunking, embedding, add and save all succeed, the
\* run ends with the document COMPLETED, its chunk_count the number of
\* chunks the chunker made, and get_document_chunk_count the same number.
C19_SuccessfulJobCompletes ==
    (Recorded /\ AllSucceed) =>
        /\ documents[call.document_id].status = "completed"
        /\ documents[call.document_id].chunk_count = Len(ChunksOf(call.filename))
        /\ get_document_chunk_count(Current, call.document_id) = Len(ChunksOf(call.filename))

\* The last step was the second half of a request to /ask in which search
\* was called and returned nothing.
SearchedWithoutResults ==
    /\ call.op = "ask_question"
    /\ call.awaited
    /\ call.env.embed = "embedding"
    /\ \A ranking \in Lookups(index, normalize_L2(call.query_embedding),
                              search_k(call.top_k, Len(index), call.document_ids)) :
          search(Current, ranking, TRUE, call.query_embedding, call.top_k, call.document_ids,
                 settings_similarity_threshold).ret = ReturnList(<<>>)

\* C20: when search returns no results the request is answered, not
\* refused: generate_answer is not called, the answer is the one of
\* generate_with_no_context, the source list is empty, chunks_retrieved is 0
\* and the three similarity statistics are 0.0.
C20_NoResultsIsAnsweredWithoutContext ==
    SearchedWithoutResults =>
        /\ response.status_code = 200
        /\ call.generated = "generate_with_no_context"
        /\ call.context = <<>>
        /\ response.answer = generate_with_no_context(call.question)
        /\ response.sources = <<>>
        /\ response.chunks_retrieved = 0
        /\ response.avg_similarity_score = 0
        /\ response.max_similarity_score = 0
        /\ response.min_similarity_score = 0

\* A question asked without a filter of an index of two chunks, neither of
\* which reaches the similarity threshold.
C20_Witness ==
    /\ SearchedWithoutResults
    /\ Len(index) = 2
    /\ ~call.document_ids.some

\* The last step answered a question from the chunks search returned.
AnsweredFromChunks ==
    /\ call.op = "ask_question"
    /\ call.awaited
    /\ call.generated = "generate_answer"

\* C21: the citation of a retrieved record carries the record's content
\* when that has at most 500 characters, and otherwise its first 500
\* characters and "..."; what the model is given ends with the record's
\* full content.
C21_CitationCutContextFull ==
    AnsweredFromChunks =>
        /\ Len(call.context) = Len(call.results)
        /\ response.status_code = 200 => Len(response.sources) = Len(call.results)
        /\ \A k \in 1 .. Len(call.results) :
              LET content == call.results[k][1].content
                  given == call.context[k]
              IN  /\ Len(given) >= Len(content)
                  /\ SubSeq(given, Len(given) - Len(content) + 1, Len(given)) = content
                  /\ response.status_code = 200 =>
                        LET cited == response.sources[k].content
                        IN  IF Len(content) <= 500 THEN cited = content
                            ELSE /\ Len(cited) = 503
                                 /\ SubSeq(cited, 1, 500) = SubSeq(content, 1, 500)
                                 /\ SubSeq(cited, 501, 503) = "..."

\* An answer that cites a record of 500 characters and one of 501.
C21_Witness ==
    /\ AnsweredFromChunks
    /\ response.status_code = 200
    /\ \E k \in 1 .. Len(call.results) : Len(call.results[k][1].content) = 500
    /\ \E k \in 1 .. Len(call.results) : Len(call.results[k][1].content) = 501

\* part in s
Occurs(part, s) ==
    \E i \in 1 .. Len(s) - Len(part) + 1 : SubSeq(s, i, i + Len(part) - 1) = part

\* The last step ended a request to /ask: it was refused before the await
\* or went on after it.
AskResponded == call.op = "ask_question" /\ job.asking = <<>>

\* C22: the detail of a failed query holds no part of the API key (no five
\* characters in a row of it).
C22_FailureDetailHidesKey ==
    (AskResponded /\ response.status_code # 200 /\ call.api_key # "") =>
        \A i \in 1 .. Len(call.api_key) - 4 :
            ~Occurs(SubSeq(call.api_key, i, i + 4), response.detail)

\* The response is a processing error whose detail includes the cause.
FailedWith(cause) == response.status_code = 500 /\ Occurs(cause, response.detail)

C30_AskOnEmptyIndexRefused ==
    (call.op = "ask_question" /\ ~call.awaited /\ get_chunk_count(pre) = 0) =>
        /\ response.status_code = 400
        /\ Occurs("No documents", response.detail)
        /\ call.called = {}
        /\ call.generated = "none"
        /\ job.asking = <<>>

\* A question asked of an empty store after an upload, with an API key
\* configured.
C30_Witness ==
    /\ call.op = "ask_question"
    /\ ~call.awaited
    /\ Len(index) = 0
    /\ call.api_key # ""
    /\ DOMAIN documents # {}
    /\ response.status_code = 400

-----------------------------------------------------------------------------
(* TextChunker: strings as Python handles them *)

\* The characters str.strip() removes, of those the texts are made of.
Whitespace == {" ", "\n"}

\* s[i] and s[a:b], positions counted from 0, for 0 <= a and b <= len(s).
CharAt(s, i) == SubSeq(s, i + 1, i + 1)
Slice(s, a, b) == SubSeq(s, a + 1, b)

\* str.strip()
RECURSIVE lstrip(_)
lstrip(s) ==
    IF Len(s) > 0 /\ CharAt(s, 0) \in Whitespace THEN lstrip(Slice(s, 1, Len(s))) ELSE s
RECURSIVE rstrip(_)
rstrip(s) ==
    IF Len(s) > 0 /\ CharAt(s, Len(s) - 1) \in Whitespace
    THEN rstrip(Slice(s, 0, Len(s) - 1)) ELSE s
strip(s) == rstrip(lstrip(s))

\* s.find(sub, start) for start >= 0: the first position from start on at
\* which sub occurs, or -1.
find(s, sub, start) ==
    LET hits == {i \in start .. Len(s) - Len(sub) : Slice(s, i, i + Len(sub)) = sub}
    IN  IF hits = {} THEN -1 ELSE CHOOSE i \in hits : \A j \in hits : i <= j

\* s.split(sep): str.split raises ValueError for the empty separator.
RECURSIVE SplitAt(_, _)
SplitAt(s, sep) ==
    LET at == find(s, sep, 0)
    IN  IF at = -1 THEN <<s>>
        ELSE <<Slice(s, 0, at)>> \o SplitAt(Slice(s, at + Len(sep), Len(s)), sep)
split(s, sep) ==
    IF sep = "" THEN [exception |-> Exception("ValueError", "empty separator"), parts |-> <<>>]
    ELSE [exception |-> NoException, parts |-> SplitAt(s, sep)]

\* list(s) and " ".join(parts)
list(s) == [i \in 1 .. Len(s) |-> CharAt(s, i - 1)]
RECURSIVE join_Concatenated(_)
join_Concatenated(parts) ==
    IF parts = <<>> THEN "" ELSE parts[1] \o join_Concatenated(Tail(parts))
RECURSIVE join(_)
join(parts) ==
    IF parts = <<>> THEN ""
    ELSE IF Len(parts) = 1 THEN parts[1]
    ELSE parts[1] \o " " \o join(Tail(parts))

\* re.sub(r' +', ' ', s) and re.sub(r'\n{3,}', '\n\n', s)
RECURSIVE SingleSpaces(_)
SingleSpaces(s) ==
    IF Len(s) < 2 THEN s
    ELSE IF Slice(s, 0, 2) = "  " THEN SingleSpaces(Slice(s, 1, Len(s)))
    ELSE CharAt(s, 0) \o SingleSpaces(Slice(s, 1, Len(s)))
RECURSIVE DoubleNewlines(_)
DoubleNewlines(s) ==
    IF Len(s) < 3 THEN s
    ELSE IF Slice(s, 0, 3) = "\n\n\n" THEN DoubleNewlines(Slice(s, 1, Len(s)))
    ELSE CharAt(s, 0) \o DoubleNewlines(Slice(s, 1, Len(s)))

-----------------------------------------------------------------------------
(* TextChunker *)

SEPARATORS == <<"\n\n", "\n", ". ", "! ", "? ", "; ", ", ", " ", "">>

\* How much of a chunk chunk_text looks for in the text to place it.
PlacedBy == 50

\* TextChunker, but an overlap equal to the size is accepted.
TextChunker_EqualAccepted(chunk_size, chunk_overlap) ==
    IF chunk_overlap > chunk_size
    THEN [ret |-> Raise("ValueError"), self |-> NoChunker]
    ELSE [ret |-> ReturnNone,
          self |-> [NoChunker EXCEPT !.built = TRUE, !.chunk_size = chunk_size,
                                     !.chunk_overlap = chunk_overlap]]

\* TextChunker.__init__: the object, or the ValueError.
TextChunker(chunk_size, chunk_overlap) ==
    IF chunk_overlap >= chunk_size
    THEN [ret |-> Raise("ValueError"), self |-> NoChunker]
    ELSE [ret |-> ReturnNone,
          self |-> [NoChunker EXCEPT !.built = TRUE, !.chunk_size = chunk_size,
                                     !.chunk_overlap = chunk_overlap]]

\* TextChunker._clean_text
_clean_text(text) == strip(DoubleNewlines(SingleSpaces(text)))

\* TextChunker._recursive_split: the splits, or the exception a step raised.
\* SplitEach is its loop over the pieces from the k-th on.
RECURSIVE _recursive_split(_, _, _)
RECURSIVE SplitEach(_, _, _, _)
SplitEach(self, pieces, k, remaining_separators) ==
    IF k > Len(pieces) THEN [exception |-> NoException, splits |-> <<>>]
    ELSE LET piece == pieces[k]
             here == IF Len(piece) <= self.chunk_size
                     THEN [exception |-> NoException,
                           splits |-> IF strip(piece) # "" THEN <<strip(piece)>> ELSE <<>>]
                     ELSE _recursive_split(self, piece, remaining_separators)
             after == SplitEach(self, pieces, k + 1, remaining_separators)
         IN  IF here.exception.raised THEN here
             ELSE IF after.exception.raised THEN after
             ELSE [exception |-> NoException, splits |-> here.splits \o after.splits]
\* _recursive_split, but the empty separator is handed to str.split.
_recursive_split_NoEmptyCase(self, text, separators) ==
    IF separators = <<>> THEN [exception |-> NoException, splits |-> list(text)]
    ELSE LET pieces == split(text, Head(separators))
         IN  IF pieces.exception.raised
             THEN [exception |-> pieces.exception, splits |-> <<>>]
             ELSE SplitEach(self, pieces.parts, 1, Tail(separators))
_recursive_split(self, text, separators) ==
    IF separators = <<>> THEN [exception |-> NoException, splits |-> list(text)]
    ELSE IF Head(separators) = "" THEN [exception |-> NoException, splits |-> list(text)]
    ELSE LET pieces == split(text, Head(separators))
         IN  IF pieces.exception.raised
             THEN [exception |-> pieces.exception, splits |-> <<>>]
             ELSE SplitEach(self, pieces.parts, 1, Tail(separators))

\* _get_overlap_text, but text[-n:] is the last n characters for n = 0 too.
_get_overlap_text_LastN(self, text) ==
    IF Len(text) <= self.chunk_overlap THEN text
    ELSE LET overlap_portion == Slice(text, Len(text) - Max(self.chunk_overlap, 0), Len(text))
             space_idx == find(overlap_portion, " ", 0)
         IN  IF space_idx # -1 THEN Slice(overlap_portion, space_idx + 1, Len(overlap_portion))
             ELSE overlap_portion

\* TextChunker._get_overlap_text. text[-n:] starts n characters before the
\* end when n > 0, at the beginning when n = 0, and -n characters after the
\* beginning when n < 0.
_get_overlap_text(self, text) ==
    IF Len(text) <= self.chunk_overlap THEN text
    ELSE LET from == IF self.chunk_overlap > 0 THEN Len(text) - self.chunk_overlap
                     ELSE Min(-self.chunk_overlap, Len(text))
             overlap_portion == Slice(text, from, Len(text))
             space_idx == find(overlap_portion, " ", 0)
         IN  IF space_idx # -1 THEN Slice(overlap_portion, space_idx + 1, Len(overlap_portion))
             ELSE overlap_portion

\* Merged, but the split that closes a chunk is left out of the next one
\* when an overlap seeds it.
RECURSIVE Merged_SeedAlone(_, _, _, _, _, _)
Merged_SeedAlone(self, splits, k, chunks, current_chunk, current_length) ==
    IF k > Len(splits)
    THEN IF current_chunk # <<>> THEN Append(chunks, join(current_chunk)) ELSE chunks
    ELSE LET split_length == Len(splits[k])
         IN  IF current_length + split_length + 1 > self.chunk_size /\ current_chunk # <<>>
             THEN LET chunk_text_ == join(current_chunk)
                      overlap_text == _get_overlap_text(self, chunk_text_)
                  IN  IF overlap_text # ""
                      THEN Merged_SeedAlone(self, splits, k + 1, Append(chunks, chunk_text_),
                                            <<overlap_text>>, Len(overlap_text))
                      ELSE Merged_SeedAlone(self, splits, k + 1, Append(chunks, chunk_text_),
                                            <<splits[k]>>, split_length)
             ELSE Merged_SeedAlone(self, splits, k + 1, chunks,
                                   Append(current_chunk, splits[k]),
                                   current_length + split_length + 1)

\* TextChunker._merge_splits_with_overlap: Merged is its loop from the k-th
\* split on.
RECURSIVE Merged(_, _, _, _, _, _)
Merged(self, splits, k, chunks, current_chunk, current_length) ==
    IF k > Len(splits)
    THEN IF current_chunk # <<>> THEN Append(chunks, join(current_chunk)) ELSE chunks
    ELSE LET split_length == Len(splits[k])
         IN  IF current_length + split_length + 1 > self.chunk_size /\ current_chunk # <<>>
             THEN LET chunk_text_ == join(current_chunk)
                      overlap_text == _get_overlap_text(self, chunk_text_)
                  IN  IF overlap_text # ""
                      THEN Merged(self, splits, k + 1, Append(chunks, chunk_text_),
                                  <<overlap_text, splits[k]>>,
                                  Len(overlap_text) + split_length + 1)
                      ELSE Merged(self, splits, k + 1, Append(chunks, chunk_text_),
                                  <<splits[k]>>, split_length)
             ELSE Merged(self, splits, k + 1, chunks, Append(current_chunk, splits[k]),
                         current_length + split_length + 1)
_merge_splits_with_overlap(self, splits) ==
    IF splits = <<>> THEN <<>> ELSE Merged(self, splits, 1, <<>>, <<>>, 0)

\* Placed, but the chunks are numbered from 1.
RECURSIVE Placed_FromOne(_, _, _, _, _)
Placed_FromOne(self, text, chunks, idx, current_pos) ==
    IF idx >= Len(chunks) THEN <<>>
    ELSE <<TextChunk(chunks[idx + 1], current_pos, current_pos + Len(chunks[idx + 1]), idx + 1)>>
            \o Placed_FromOne(self, text, chunks, idx + 1, current_pos + 1)

\* Placed, but every chunk is looked for from the beginning of the text.
RECURSIVE Placed_FromTextStart(_, _, _, _, _)
Placed_FromTextStart(self, text, chunks, idx, current_pos) ==
    IF idx >= Len(chunks) THEN <<>>
    ELSE LET chunk_content == chunks[idx + 1]
             found == find(text, Slice(chunk_content, 0, Min(PlacedBy, Len(chunk_content))), 0)
             start == IF found = -1 THEN current_pos ELSE found
         IN  <<TextChunk(chunk_content, start, start + Len(chunk_content), idx)>>
                \o Placed_FromTextStart(self, text, chunks, idx + 1,
                          Max(start + Len(chunk_content) - self.chunk_overlap, current_pos + 1))

\* Lines 84 to 101: the chunks from the idx-th on placed in the text.
RECURSIVE Placed(_, _, _, _, _)
Placed(self, text, chunks, idx, current_pos) ==
    IF idx >= Len(chunks) THEN <<>>
    ELSE LET chunk_content == chunks[idx + 1]
             found == find(text, Slice(chunk_content, 0, Min(PlacedBy, Len(chunk_content))),
                           current_pos)
             start == IF found = -1 THEN current_pos ELSE found
         IN  <<TextChunk(chunk_content, start, start + Len(chunk_content), idx)>>
                \o Placed(self, text, chunks, idx + 1,
                          Max(start + Len(chunk_content) - self.chunk_overlap, current_pos + 1))

\* chunk_text, but a call uses up one character of the object's overlap.
chunk_text_UsesUpOverlap(self, text) ==
    LET cleaned == _clean_text(text)
        splits == _recursive_split(self, cleaned, SEPARATORS)
        chunks == _merge_splits_with_overlap(self, splits.splits)
    IN  [self |-> [self EXCEPT !.chunk_overlap = @ - 1],
         ret |-> IF text = "" \/ strip(text) = "" THEN ReturnList(<<>>)
                 ELSE ReturnList(Placed(self, cleaned, chunks, 0, 0))]

\* TextChunker.chunk_text: the object after the call, and the chunks
\* returned or the exception raised.
chunk_text(self, text) ==
    LET cleaned == _clean_text(text)
        splits == _recursive_split(self, cleaned, SEPARATORS)
        chunks == _merge_splits_with_overlap(self, splits.splits)
    IN  IF text = "" \/ strip(text) = "" THEN [self |-> self, ret |-> ReturnList(<<>>)]
        ELSE IF splits.exception.raised
        THEN [self |-> self, ret |-> Raise(splits.exception.class)]
        ELSE [self |-> self, ret |-> ReturnList(Placed(self, cleaned, chunks, 0, 0))]

-----------------------------------------------------------------------------
(* The state machine of one TextChunker *)

\* The texts: every string of up to MaxText of these characters.
MaxText == 4
Alphabet == {"a", " ", ".", "\n"}
RECURSIVE TextsUpTo(_)
TextsUpTo(n) ==
    IF n = 0 THEN {""}
    ELSE LET shorter == TextsUpTo(n - 1)
         IN  shorter \cup {t \o c : t \in shorter, c \in Alphabet}
\* Longer texts: words longer than a chunk after a sentence end, two
\* sentences of short words, and four short words.
LongTexts == {". aaaa", "a a. aa a", "a a a a"}
Texts == TextsUpTo(MaxText) \cup LongTexts

\* The sizes and overlaps a TextChunker is built with, the number of calls
\* made on it, and the text chunked between two calls on the same text.
MaxChunkSize == 5
ChunkSizes == -1 .. MaxChunkSize
ChunkOverlaps == -2 .. MaxChunkSize
MaxChunkerCalls == 3
Between == "a a.a"

unchunked == <<index, metadata, document_chunks, pre, lookup, lock, threads, disk,
               documents, job, response>>

\* TextChunker(chunk_size, chunk_overlap)
NewTextChunker ==
    /\ call.op = "__init__"
    /\ \E chunk_size \in ChunkSizes, chunk_overlap \in ChunkOverlaps :
          /\ chunker' = TextChunker(chunk_size, chunk_overlap).self
          /\ ret' = TextChunker(chunk_size, chunk_overlap).ret
          /\ call' = [op |-> "TextChunker", chunk_size |-> chunk_size,
                      chunk_overlap |-> chunk_overlap, text |-> ""]
    /\ UNCHANGED unchunked

\* chunker.chunk_text(text): the first call on any text, the later ones on
\* the same text or on another. The text and the chunks of the first call
\* are remembered.
ChunkText ==
    /\ chunker.built
    /\ chunker.calls < MaxChunkerCalls
    /\ \E text \in IF chunker.calls = 0 THEN Texts ELSE {chunker.text, Between} :
          LET r == chunk_text(chunker, text)
          IN  /\ chunker' = [r.self EXCEPT
                               !.calls = chunker.calls + 1,
                               !.text = IF chunker.calls = 0 THEN text ELSE @,
                               !.chunks = IF chunker.calls = 0 THEN r.ret.results ELSE @,
                               !.between = IF chunker.calls = 0 THEN FALSE
                                           ELSE @ \/ text # chunker.text]
              /\ ret' = r.ret
              /\ call' = [op |-> "chunk_text", chunk_size |-> chunker.chunk_size,
                          chunk_overlap |-> chunker.chunk_overlap, text |-> text]
    /\ UNCHANGED unchunked

ChunkerNext == NewTextChunker \/ ChunkText

SpecChunker == Init /\ [][ChunkerNext]_vars

-----------------------------------------------------------------------------
(* The chunker's claims *)

Constructed == call.op = "TextChunker"
Chunked == call.op = "chunk_text"

\* The text has nothing but whitespace; its words are its maximal runs of
\* other characters.
Blank(text) == strip(text) = ""
RECURSIVE WordsOf(_)
WordsOf(s) ==
    LET t == lstrip(s)
        gaps == {i \in 0 .. Len(t) - 1 : CharAt(t, i) \in Whitespace}
        end == IF gaps = {} THEN Len(t) ELSE CHOOSE i \in gaps : \A j \in gaps : i <= j
    IN  IF t = "" THEN <<>>
        ELSE <<Slice(t, 0, end)>> \o WordsOf(Slice(t, end, Len(t)))

\* The chunks are numbered 0, 1, ..., N-1 in output order.
NumberedInOrder(chunks) == \A i \in 1 .. Len(chunks) : chunks[i].chunk_index = i - 1

\* C24: constructing a TextChunker raises ValueError exactly when
\* chunk_overlap >= chunk_size, and otherwise gives a chunker holding the
\* two parameters.
C24_ConstructionFailsOnLargeOverlap ==
    Constructed =>
        /\ Raised <=> call.chunk_overlap >= call.chunk_size
        /\ Raised => ret.exception = "ValueError" /\ ~chunker.built
        /\ Returned => /\ chunker.built
                       /\ chunker.chunk_size = call.chunk_size
                       /\ chunker.chunk_overlap = call.chunk_overlap
C24_Witness == Constructed /\ Raised /\ call.chunk_overlap = call.chunk_size

\* C25 as stated: every non-empty text gives at least one chunk, numbered
\* 0..N-1.
C25_NonEmptyTextGivesChunks ==
    Chunked /\ call.text # "" =>
        Returned /\ Len(ret.results) >= 1 /\ NumberedInOrder(ret.results)

\* C25 amended: every text with a character that is not whitespace gives at
\* least one chunk, a non-empty text of whitespace alone gives none, and the
\* chunks are always numbered 0..N-1 in output order.
C25_NonBlankTextGivesChunks ==
    Chunked =>
        /\ Returned
        /\ ~Blank(call.text) => Len(ret.results) >= 1
        /\ Blank(call.text) => ret.results = <<>>
        /\ NumberedInOrder(ret.results)
C25_Witness == Chunked /\ ~Blank(call.text) /\ Returned /\ Len(ret.results) >= 3

C27_ChunkTextNeverFails ==
    Chunked =>
        /\ Returned
        /\ call.text = "" \/ Blank(call.text) => ret.results = <<>>
C27_Witness == Chunked /\ call.text # "" /\ Blank(call.text) /\ Returned /\ ret.results = <<>>

\* C28: with 0 <= chunk_overlap < chunk_size no chunk has more than
\* chunk_size + chunk_overlap + 1 characters.
C28_ChunkLengthBounded ==
    Chunked /\ 0 <= call.chunk_overlap /\ call.chunk_overlap < call.chunk_size =>
        \A i \in 1 .. Len(ret.results) :
            Len(ret.results[i].content) <= call.chunk_size + call.chunk_overlap + 1

-----------------------------------------------------------------------------
(* The DELETE endpoint on an unknown document *)

\* C31: DELETE /documents/{id} for an id without a record answers 404
\* "Document not found", calls neither delete_document nor save, and leaves
\* the document store, the vector store and the files on disk as they were.
C31_UnknownDeleteChangesNothing ==
    [][call'.op = "delete_document_endpoint" /\ ~call'.known =>
          /\ response'.status_code = 404
          /\ response'.detail = "Document not found"
          /\ call'.called = {}
          /\ UNCHANGED <<index, metadata, document_chunks, disk, documents>>]_vars
C31_Witness ==
    /\ call.op = "delete_document_endpoint" /\ ~call.known
    /\ response.status_code = 404
    /\ index # <<>>
    /\ documents # <<>>

-----------------------------------------------------------------------------
(* Concurrent mutators of one VectorStore *)

\* Thread t is in add_embeddings, or has returned from it, and has appended
\* its first n records.
Appended(t) ==
    IF threads[t].op # "add_embeddings" THEN 0
    ELSE IF threads[t].pc = "173" THEN threads[t].i
    ELSE IF threads[t].pc = "177" THEN threads[t].i + 1
    ELSE IF threads[t].pc = "done" /\ threads[t].ret = ReturnNone
    THEN Len(threads[t].chunks_metadata)
    ELSE 0

\* The first n records of thread t's batch are n neighbours of the metadata
\* list from position p on, in the batch's order.
BlockAt(t, p, n) ==
    /\ p + n <= Len(metadata)
    /\ \A i \in 0 .. n - 1 : At(metadata, p + i) = At(threads[t].chunks_metadata, i)

\* C32: under every interleaving the records a call of add_embeddings has
\* appended are one block of neighbouring positions in the call's input
\* order, and once no mutator is in its locked section the positions listed
\* in document_chunks for the call's document are exactly the positions of
\* its records.
C32_ConcurrentAddsKeepBlocks ==
    \A t \in Threads :
        Appended(t) > 0 /\ In(At(threads[t].chunks_metadata, 0), metadata) =>
            \E p \in Positions(metadata) :
                /\ BlockAt(t, p, Appended(t))
                /\ lock = NoThread =>
                      LET id == At(threads[t].chunks_metadata, 0).document_id
                      IN  /\ id \in DOMAIN document_chunks
                          /\ document_chunks[id] = [i \in 1 .. Appended(t) |-> p + i - 1]
C32_Witness ==
    \E t, u \in Threads :
        /\ threads[t].op = "add_embeddings" /\ threads[t].pc = "177" /\ threads[t].i = 1
        /\ threads[u].op = "add_embeddings" /\ threads[u].pc = "161"
        /\ lock = t

\* C33: delete_document ends by returning its boolean in every
\* interleaving, never by raising: a call that finds the document gone
\* returns False.
C33_ConcurrentDeleteNeverRaises ==
    \A t \in Threads : Finished(t, "delete_document") => threads[t].ret.kind = "return"

-----------------------------------------------------------------------------
(* The chunker's overlap, offsets and fragments *)

\* The chunks chunk_text closed before the last one, each with the overlap
\* tail computed from it on closing (line 163) and the chunk that follows.
Closed == {i \in 1 .. Len(ret.results) - 1 : TRUE}
TailOf(i) == _get_overlap_text(chunker, ret.results[i].content)
IsSuffix(tail, s) == Len(tail) <= Len(s) /\ Slice(s, Len(s) - Len(tail), Len(s)) = tail
IsPrefix(head, s) == Len(head) <= Len(s) /\ Slice(s, 0, Len(head)) = head

\* The last n characters of s (all of s when it has no more).
Window(s, n) == Slice(s, Max(Len(s) - n, 0), Len(s))

\* C34: for 0 <= chunk_overlap < chunk_size the overlap tail of every closed
\* chunk is a suffix of that chunk of at most chunk_overlap characters, it
\* seeds the next chunk, and when the chunk's last chunk_overlap characters
\* hold a space and are not the whole chunk, the tail begins right after a
\* space of the chunk.
C34_OverlapTailIsBoundedSuffix ==
    Chunked /\ 0 <= call.chunk_overlap /\ call.chunk_overlap < call.chunk_size =>
        \A i \in Closed :
            LET closed == ret.results[i].content
                tail == TailOf(i)
            IN  /\ IsSuffix(tail, closed)
                /\ Len(tail) <= call.chunk_overlap
                /\ tail # "" => IsPrefix(tail \o " ", ret.results[i + 1].content)
                /\ Occurs(" ", Window(closed, call.chunk_overlap))
                   /\ Len(closed) > call.chunk_overlap
                      => CharAt(closed, Len(closed) - Len(tail) - 1) = " "

\* C34 for the chunkers with an overlap of at least one character.
C34_PositiveOverlapTail ==
    Chunked /\ call.chunk_overlap >= 1 => C34_OverlapTailIsBoundedSuffix
C34_PositiveWitness ==
    /\ Chunked /\ call.chunk_overlap >= 2
    /\ \E i \in Closed : /\ TailOf(i) # ""
                         /\ Len(TailOf(i)) < call.chunk_overlap
                         /\ Occurs(" ", Window(ret.results[i].content, call.chunk_overlap))

\* The search cursor in force when the i-th chunk of the result was located:
\* 0 for the first, and after each chunk the value line 101 gives it.
RECURSIVE CursorAt(_)
CursorAt(i) ==
    IF i = 1 THEN 0
    ELSE Max(ret.results[i - 1].start_char + Len(ret.results[i - 1].content)
                - call.chunk_overlap,
             CursorAt(i - 1) + 1)

\* C35 as stated: the search cursor strictly increases from chunk to chunk,
\* every chunk starts at or after the cursor it was looked for from, end_char
\* - start_char is the length of its content, and start_char never decreases
\* along the chunks.
C35_OffsetsMoveForward ==
    Chunked =>
        /\ \A i \in 1 .. Len(ret.results) :
              /\ ret.results[i].start_char >= CursorAt(i)
              /\ ret.results[i].end_char - ret.results[i].start_char
                    = Len(ret.results[i].content)
        /\ \A i \in 1 .. Len(ret.results) - 1 :
              /\ CursorAt(i + 1) > CursorAt(i)
              /\ ret.results[i + 1].start_char >= ret.results[i].start_char

\* C35 amended: the search cursor strictly increases from chunk to chunk,
\* every chunk starts at or after the cursor it was looked for from, end_char
\* - start_char is the length of its content, and a chunk starts no earlier
\* than chunk_overlap characters before the end of the chunk before it.
C35_CursorMovesForward ==
    Chunked =>
        /\ \A i \in 1 .. Len(ret.results) :
              /\ ret.results[i].start_char >= CursorAt(i)
              /\ ret.results[i].end_char - ret.results[i].start_char
                    = Len(ret.results[i].content)
        /\ \A i \in 1 .. Len(ret.results) - 1 :
              /\ CursorAt(i + 1) > CursorAt(i)
              /\ ret.results[i + 1].start_char
                    >= ret.results[i].end_char - call.chunk_overlap
C35_Witness ==
    /\ Chunked
    /\ \E i \in 1 .. Len(ret.results) - 1 :
          /\ ret.results[i + 1].start_char < ret.results[i].start_char
          /\ ret.results[i].start_char > CursorAt(i)

-----------------------------------------------------------------------------
(* The status of a document and the DELETE endpoint against its job *)

\* PENDING, then PROCESSING, then COMPLETED or FAILED.
Terminal == {"completed", "failed"}
StatusRank(status) ==
    CASE status = "pending" -> 0
      [] status = "processing" -> 1
      [] status \in Terminal -> 2

\* An upload was accepted and has just been answered.
Uploaded == call.op = "upload_document" /\ call.document_id # ""

\* C36: a document is PENDING when its upload is answered, its status only
\* moves forward along PENDING, PROCESSING, COMPLETED or FAILED, a COMPLETED
\* or FAILED status is never changed, and processed_at is set exactly when
\* the status is COMPLETED.
C36_StatusMovesForward ==
    /\ [](/\ Uploaded => /\ response.status = "pending"
                         /\ documents[call.document_id].status = "pending"
          /\ \A d \in DOMAIN documents :
                documents[d].processed_at.some <=> documents[d].status = "completed")
    /\ [][\A d \in DOMAIN documents \cap DOMAIN documents' :
             /\ documents[d].status \in Terminal
                   => documents'[d].status = documents[d].status
             /\ documents'[d].status # documents[d].status
                   => StatusRank(documents'[d].status) > StatusRank(documents[d].status)]_vars
C36_Witness ==
    /\ call.op = "delete_document_endpoint" /\ call.document_id = "C" /\ call.known
    /\ "A" \in DOMAIN documents /\ documents["A"].status = "completed"
    /\ "B" \in DOMAIN documents /\ documents["B"].status = "failed"
    /\ ~documents["B"].processed_at.some

\* The documents that were given an id, and those of them the DELETE
\* endpoint has removed the record of (an id is never given twice).
Known == {"A"} \cup job.issued
Removed == Known \ DOMAIN documents

\* C37: once the DELETE endpoint has answered for a document with success,
\* the index never holds a chunk of that document again, whether the
\* document's job runs before or after the delete.
C37_DeletedDocumentHasNoChunks ==
    \A d \in Removed :
        /\ \A p \in Positions(metadata) : At(metadata, p).document_id # d
        /\ d \notin DOMAIN document_chunks
C37_Witness ==
    /\ call.op = "process_document"
    /\ call.document_id \in Removed
    /\ index # <<>>

-----------------------------------------------------------------------------
(* The fragments in the chunks *)

\* The leaf fragments the recursive split gives for the text of the call,
\* and the contents of the chunks returned.
Fragments == _recursive_split(chunker, _clean_text(call.text), SEPARATORS).splits
Contents == [i \in 1 .. Len(ret.results) |-> ret.results[i].content]

\* The chunks from the j-th on are made of the fragments from the k-th on:
\* each chunk is its seed (the overlap tail of the chunk before it, when
\* that is not empty) and one or more of the next fragments, joined by
\* single spaces.
RECURSIVE Covers(_, _, _, _)
Covers(chunks, j, frags, k) ==
    IF j > Len(chunks) THEN k > Len(frags)
    ELSE LET tail == IF j = 1 THEN "" ELSE _get_overlap_text(chunker, chunks[j - 1])
             seed == IF tail = "" THEN <<>> ELSE <<tail>>
         IN  \E n \in 1 .. Len(frags) - k + 1 :
                /\ chunks[j] = join(seed \o SubSeq(frags, k, k + n - 1))
                /\ Covers(chunks, j + 1, frags, k + n)

\* C38: the chunks hold every fragment of the recursive split, in the order
\* of the fragments, each fragment once as new content of one chunk, after
\* the chunk's overlap seed.
C38_MergingLosesNoFragment ==
    Chunked /\ ~Blank(call.text) => Covers(Contents, 1, Fragments, 1)
C38_Witness ==
    /\ Chunked /\ Len(ret.results) >= 2
    /\ Len(Fragments) > Len(ret.results)
    /\ call.chunk_overlap >= 1
    /\ \E i \in Closed : TailOf(i) # ""

====
